---- MODULE Spec2Model ----
(***************************************************************************)
(* State-machine model of the building-insights dashboard                  *)
(* (src/index.tsx): the module-level state, the filter engine, the         *)
(* interaction handlers, the deferred render cycle, the debounced search,  *)
(* the comparison list and the export paths.                               *)
(*                                                                         *)
(* Conventions                                                             *)
(*  - JavaScript strings are TLA+ strings; their characters are given by   *)
(*    CharsOf, so that toLowerCase / trim / includes are computed.         *)
(*  - null is the value Null; Infinity and -Infinity are the integers      *)
(*    Infinity and NegInfinity, larger (smaller) than every data value.    *)
(*  - numbers are integers.                                                *)
(*  - one action is one event handler or timer callback run to completion  *)
(*    (the UI thread is single-threaded).                                  *)
(***************************************************************************)
EXTENDS Integers, Sequences, FiniteSets, TLC

VARIABLES
    phase,                \* position of initializeApp: "loading", "ready", "failed"
    allBuildingData,      \* canonical records
    filteredBuildingData, \* active set
    currentFilters,       \* FilterState
    selectedItems,        \* chartInteractionState.selectedItems
    comparisonMode,       \* chartInteractionState.comparisonMode
    currentView,          \* chartInteractionState.currentView
    activeCharts,         \* live Chart instances
    renderTimers,         \* pending setTimeout(..., 100) callbacks of displayVisualization
    searchTimers,         \* pending setTimeout(..., 300) callbacks of the search input
    searchInputValue,     \* DOM: #search-input.value
    deptChecked,          \* DOM: checked department checkboxes
    drillDownPanel,       \* DOM: #drill-down-panel (NoPanel when absent)
    notification,         \* DOM: type of the notification shown by the last handler
    lastExport,           \* outcome of the last export handler
    searchBurst,          \* history: the search-input events and the recomputations they caused
    preToggle,            \* history: a department toggled on by the last handler, and the active set before it
    vizArea,              \* DOM: #visualization-content and #loader
    quickStats,           \* DOM: #total-properties, #avg-energy, #green-buildings
    stories,              \* DOM: the .story-container elements, and the requests in flight
    modal                 \* DOM: the .modal-overlay on top (NoModal when none)

vars == << phase, allBuildingData, filteredBuildingData, currentFilters,
           selectedItems, comparisonMode, currentView, activeCharts,
           renderTimers, searchTimers, searchInputValue, deptChecked,
           drillDownPanel, notification, lastExport, searchBurst,
           preToggle, vizArea, quickStats, stories, modal >>

-----------------------------------------------------------------------------
(* Values *)

Null == "<null>"
Infinity == 1000000000
NegInfinity == 0 - Infinity

\* Bounds of the model
MaxPending == 2
MaxSearchTimers == 2
MaxRequests == 3

\* Timer delays in milliseconds; time advances in steps of RENDER_DELAY
RENDER_DELAY == 100
SEARCH_DELAY == 300

-----------------------------------------------------------------------------
(* Strings *)

CharsOf(s) ==
    CASE s = ""               -> << >>
      [] s = "Annex"          -> << "A", "n", "n", "e", "x" >>
      [] s = "Depot"          -> << "D", "e", "p", "o", "t" >>
      [] s = "Lab"            -> << "L", "a", "b" >>
      [] s = "Yard"           -> << "Y", "a", "r", "d" >>
      [] s = "DGS"            -> << "D", "G", "S" >>
      [] s = "DOT"            -> << "D", "O", "T" >>
      [] s = "K St"           -> << "K", " ", "S", "t" >>
      [] s = "Davis"          -> << "D", "a", "v", "i", "s" >>
      [] s = "Chico"          -> << "C", "h", "i", "c", "o" >>
      [] s = "Gold"           -> << "G", "o", "l", "d" >>
      [] s = "No"             -> << "N", "o" >>
      [] s = " NO "           -> << " ", "N", "O", " " >>
      [] s = "Not Applicable" -> << "N", "o", "t", " ", "A", "p", "p", "l", "i", "c", "a", "b", "l", "e" >>
      [] s = "no"             -> << "n", "o" >>
      [] s = "not applicable" -> << "n", "o", "t", " ", "a", "p", "p", "l", "i", "c", "a", "b", "l", "e" >>
      [] s = "dav"            -> << "d", "a", "v" >>
      [] s = "DAV"            -> << "D", "A", "V" >>
      [] s = "zz"             -> << "z", "z" >>
      [] s = " "              -> << " " >>
      [] s = "chart-deptDistribution" ->
           << "c", "h", "a", "r", "t", "-", "d", "e", "p", "t", "D", "i", "s", "t", "r", "i", "b", "u", "t", "i", "o", "n" >>
      [] s = "chart-propertyTypes" ->
           << "c", "h", "a", "r", "t", "-", "p", "r", "o", "p", "e", "r", "t", "y", "T", "y", "p", "e", "s" >>
      [] s = "chart-cityDistribution" ->
           << "c", "h", "a", "r", "t", "-", "c", "i", "t", "y", "D", "i", "s", "t", "r", "i", "b", "u", "t", "i", "o", "n" >>
      [] s = "deptDistribution" ->
           << "d", "e", "p", "t", "D", "i", "s", "t", "r", "i", "b", "u", "t", "i", "o", "n" >>
      [] s = "propertyTypes" ->
           << "p", "r", "o", "p", "e", "r", "t", "y", "T", "y", "p", "e", "s" >>
      [] s = "energyVsGfa" ->
           << "e", "n", "e", "r", "g", "y", "V", "s", "G", "f", "a" >>
      [] s = "greenPowerDistribution" ->
           << "g", "r", "e", "e", "n", "P", "o", "w", "e", "r", "D", "i", "s", "t", "r", "i", "b", "u", "t", "i", "o", "n" >>
      [] s = "cityDistribution" ->
           << "c", "i", "t", "y", "D", "i", "s", "t", "r", "i", "b", "u", "t", "i", "o", "n" >>
      [] s = "buildingAge" ->
           << "b", "u", "i", "l", "d", "i", "n", "g", "A", "g", "e" >>
      [] s = "greenPower" ->
           << "g", "r", "e", "e", "n", "P", "o", "w", "e", "r" >>
      [] s = "chart-greenPowerDistribution" ->
           << "c", "h", "a", "r", "t", "-", "g", "r", "e", "e", "n", "P", "o", "w", "e", "r", "D", "i", "s", "t", "r", "i", "b", "u", "t", "i", "o", "n" >>
      [] s = "chart-buildingAgeDistribution" ->
           << "c", "h", "a", "r", "t", "-", "b", "u", "i", "l", "d", "i", "n", "g", "A", "g", "e", "D", "i", "s", "t", "r", "i", "b", "u", "t", "i", "o", "n" >>
      [] s = "chart-energyVsGfa" ->
           << "c", "h", "a", "r", "t", "-", "e", "n", "e", "r", "g", "y", "V", "s", "G", "f", "a" >>
      [] s = "energyVsGfa" ->
           << "e", "n", "e", "r", "g", "y", "V", "s", "G", "f", "a" >>
      [] s = "dept"           -> << "d", "e", "p", "t" >>
      [] s = "Department"     -> << "D", "e", "p", "a", "r", "t", "m", "e", "n", "t" >>
      [] s = "type"           -> << "t", "y", "p", "e" >>
      [] s = "city"           -> << "c", "i", "t", "y" >>
      [] s = " kgal"          -> << " ", "k", "g", "a", "l" >>
      [] s = " kBtu"          -> << " ", "k", "B", "t", "u" >>
      [] s = "No Water Usage Data" ->
           << "N", "o", " ", "W", "a", "t", "e", "r", " ", "U", "s", "a", "g", "e", " ", "D", "a", "t", "a" >>
      [] s = "P1"             -> << "P", "1" >>
      [] s = "P2"             -> << "P", "2" >>
      [] s = "P3"             -> << "P", "3" >>
      [] s = "P4"             -> << "P", "4" >>
      [] s = "P5"             -> << "P", "5" >>
      [] s = "Office"         -> << "O", "f", "f", "i", "c", "e" >>
      [] s = "Garage"         -> << "G", "a", "r", "a", "g", "e" >>
      [] s = "Lot \"B\""      -> << "L", "o", "t", " ", "\"", "B", "\"" >>
      [] s = "C:\\"           -> << "C", ":", "\\" >>
      [] s = "1,000"          -> << "1", ",", "0", "0", "0" >>
      [] s = "500"            -> << "5", "0", "0" >>
      [] s = "0"              -> << "0" >>
      [] s = "1950"           -> << "1", "9", "5", "0" >>
      [] s = " 10 "           -> << " ", "1", "0", " " >>
      [] s = "-7"             -> << "-", "7" >>
      [] s = "abc"            -> << "a", "b", "c" >>
      [] s = "12abc"          -> << "1", "2", "a", "b", "c" >>
      [] s = "   "            -> << " ", " ", " " >>
      [] s = "Infinity"       -> << "I", "n", "f", "i", "n", "i", "t", "y" >>
      [] s = "-Infinity"      -> << "-", "I", "n", "f", "i", "n", "i", "t", "y" >>
      [] s = "NaN"            -> << "N", "a", "N" >>

LowerChar(c) ==
    CASE c = "A" -> "a" [] c = "C" -> "c" [] c = "D" -> "d" [] c = "G" -> "g"
      [] c = "K" -> "k" [] c = "L" -> "l" [] c = "N" -> "n" [] c = "O" -> "o"
      [] c = "S" -> "s" [] c = "T" -> "t" [] c = "V" -> "v" [] c = "Y" -> "y"
      [] OTHER -> c

toLowerCase(cs) == [i \in 1..Len(cs) |-> LowerChar(cs[i])]

trim(cs) ==
    LET nonSpace == {i \in 1..Len(cs) : cs[i] # " "}
    IN  IF nonSpace = {} THEN << >>
        ELSE LET lo == CHOOSE i \in nonSpace : \A j \in nonSpace : i <= j
                 hi == CHOOSE i \in nonSpace : \A j \in nonSpace : j <= i
             IN  SubSeq(cs, lo, hi)

includes(text, pat) ==
    \E off \in 0..(Len(text) - Len(pat)) :
        \A i \in 1..Len(pat) : text[off + i] = pat[i]

-----------------------------------------------------------------------------
(* Sequences *)

Contains(seq, x) == \E i \in 1..Len(seq) : seq[i] = x

RECURSIVE Reverse(_)
Reverse(seq) == IF seq = << >> THEN << >> ELSE Append(Reverse(Tail(seq)), Head(seq))

\* s is a subsequence of t: the elements of s occur in t in the same order
RECURSIVE IsSubseq(_, _)
IsSubseq(s, t) ==
    IF s = << >> THEN TRUE
    ELSE IF t = << >> THEN FALSE
    ELSE IF Head(s) = Head(t) THEN IsSubseq(Tail(s), Tail(t))
    ELSE IsSubseq(s, Tail(t))

\* Math.min(...xs) and Math.max(...xs); of no argument they are Infinity and -Infinity
\* the sum of a sequence of numbers
Sum(seq) ==
    LET RECURSIVE upTo(_)
        upTo(n) == IF n = 0 THEN 0 ELSE upTo(n - 1) + seq[n]
    IN  upTo(Len(seq))

MathMin(xs) ==
    IF xs = << >> THEN Infinity
    ELSE LET S == {xs[i] : i \in 1..Len(xs)} IN CHOOSE m \in S : \A x \in S : m <= x

MathMax(xs) ==
    IF xs = << >> THEN NegInfinity
    ELSE LET S == {xs[i] : i \in 1..Len(xs)} IN CHOOSE m \in S : \A x \in S : x <= m

-----------------------------------------------------------------------------
(* Canonical records (the output of fetchDataAndParse) *)

Rec(id, name, dept, type, city, addr, year, energy, gfa, leed, green) ==
    [ propertyId |-> id, propertyName |-> name, departmentName |-> dept,
      primaryPropertyType |-> type, city |-> city, address1 |-> addr,
      yearBuilt |-> year, siteEnergyUseKbtu |-> energy, propertyGFA |-> gfa,
      leedCertified |-> leed, percentGreenPower |-> green,
      waterUseKgal |-> 0, totalElectricityUseKWh |-> 0, siteEnergyUsedPerSqrFt |-> 0,
      elecUsedPerSqrFt |-> 0 ]

RecAnnex == Rec("P1", "Annex", "DGS", "Office", "Davis", "K St", 1950, 500, 1000, "Gold", 10)
RecDepot == Rec("P2", "Depot", "DOT", "Garage", "Chico", "", 0, 0, 200, "No", 0)
RecLab   == Rec("P3", "Lab", "DGS", "Office", "Chico", "", 2005, 20, 50, "", 30)
RecAnnexOld == Rec("P1", "Annex", "DGS", "Office", "Davis", "K St", 1950, 20, 1000, " NO ", 0)
RecYard  == Rec("P4", "Yard", "", "Garage", "", "", 1990, 0, 0, "Not Applicable", 0)

\* the payloads the dataset source may deliver
DataMixed == << RecAnnex, RecDepot, RecLab >>        \* one record has yearBuilt 0
DataDated == << RecAnnex, RecAnnexOld, RecYard >>    \* every yearBuilt is a plausible year
DataUndated == << RecDepot >>                        \* no plausible year at all
Datasets == { DataMixed, DataDated, DataUndated }

\* records with the consumption figures the derived views read
Metered(id, name, gfa, energy, water, elec, intensity, elecIntensity, green) ==
    [Rec(id, name, "DGS", "Office", "Davis", "", 1950, energy, gfa, "", green)
        EXCEPT !.waterUseKgal = water, !.totalElectricityUseKWh = elec,
               !.siteEnergyUsedPerSqrFt = intensity, !.elecUsedPerSqrFt = elecIntensity]

\* equal keys (energy 500, water 95, intensity 50, electrical intensity 20),
\* values outside the windows of the histograms and rankings, and one record
\* without any consumption
DataMetered ==
    << Metered("M1", "Mill", 2000, 100, 5, 10, 50, 20, 0),
       Metered("M2", "Mint", 2000, 500, 95, 10, 50, 20, 10),
       Metered("M3", "Mall", 5000, 1000, 1234, 5, 900, 150, 30),
       Metered("M4", "Moat", 600, 0, 0, 0, 0, 0, 60),
       Metered("M5", "Mews", 3000, 500, 95, 7, 1200, 20, 90),
       Metered("M6", "Mast", 1000, 20, 2500, 3, 15, 250, 120) >>

\* the keys 100, 500, 1000 and the green-power shares 0, 10, 30, 60, 90
DataShares ==
    << Metered("S1", "Silo", 2000, 100, 10, 1, 10, 10, 0),
       Metered("S2", "Shed", 2000, 500, 20, 1, 20, 20, 10),
       Metered("S3", "Shop", 2000, 1000, 30, 1, 30, 30, 30),
       [Metered("S4", "Spa", 2000, 0, 0, 1, 0, 0, 60) EXCEPT !.yearBuilt = 1985],
       [Metered("S5", "Stud", 2000, 0, 0, 1, 0, 0, 90) EXCEPT !.yearBuilt = 2005] >>

\* more qualifying records than a ranking shows, with keys that repeat
DataMany ==
    LET names == << "T01", "T02", "T03", "T04", "T05", "T06", "T07", "T08", "T09",
                    "T10", "T11", "T12", "T13", "T14", "T15", "T16", "T17" >>
    IN  [i \in 1..17 |->
            Metered(names[i], names[i], 2000, 100 * ((i * 7) % 5) + 100, ((i * 5) % 4) + 1,
                    i % 3, (((i * 3) % 6) + 1) * 10, ((i * 5) % 7) + 1,
                    IF i % 4 = 0 THEN 0 - 1 ELSE (i * 13) % 101)]

\* no record qualifies for any histogram or ranking
DataIdle == << Metered("Z1", "Zone", 50, 0, 0, 0, 0, 0, 0) >>

MeteredDatasets == { DataMetered, DataShares, DataMany, DataIdle }

-----------------------------------------------------------------------------
(* The dataset source: the parsed JSON payload and its normalisation *)

\* a value of the parsed payload: t is what typeof tells about it ("undefined"
\* for a missing key, "null", "number", "string", "boolean"); a number is
\* finite (n), NaN, or an infinity (n = Infinity or NegInfinity, as 1e999 parses)
JUndefined == [ t |-> "undefined", nan |-> FALSE, n |-> 0, s |-> "" ]
JNull == [ t |-> "null", nan |-> FALSE, n |-> 0, s |-> "" ]
JNumber(n) == [ t |-> "number", nan |-> FALSE, n |-> n, s |-> "" ]
JNaN == [ t |-> "number", nan |-> TRUE, n |-> 0, s |-> "" ]
JString(s) == [ t |-> "string", nan |-> FALSE, n |-> 0, s |-> s ]
JTrue == [ t |-> "boolean", nan |-> FALSE, n |-> 1, s |-> "" ]

IsDigit(c) == c \in {"0", "1", "2", "3", "4", "5", "6", "7", "8", "9"}

DigitValue(c) ==
    CASE c = "0" -> 0 [] c = "1" -> 1 [] c = "2" -> 2 [] c = "3" -> 3 [] c = "4" -> 4
      [] c = "5" -> 5 [] c = "6" -> 6 [] c = "7" -> 7 [] c = "8" -> 8 [] c = "9" -> 9

RECURSIVE DigitsValue(_)
DigitsValue(cs) ==
    IF cs = << >> THEN 0 ELSE 10 * DigitsValue(SubSeq(cs, 1, Len(cs) - 1)) + DigitValue(cs[Len(cs)])

\* the decimal digits of a non-negative integer
DigitChar(d) ==
    CASE d = 0 -> "0" [] d = 1 -> "1" [] d = 2 -> "2" [] d = 3 -> "3" [] d = 4 -> "4"
      [] d = 5 -> "5" [] d = 6 -> "6" [] d = 7 -> "7" [] d = 8 -> "8" [] d = 9 -> "9"

RECURSIVE DigitsOf(_)
DigitsOf(n) == IF n < 10 THEN << DigitChar(n) >> ELSE Append(DigitsOf(n \div 10), DigitChar(n % 10))

\* the longest prefix of cs made of digits
RECURSIVE DigitPrefix(_)
DigitPrefix(cs) ==
    IF cs = << >> \/ ~ IsDigit(Head(cs)) THEN << >> ELSE << Head(cs) >> \o DigitPrefix(Tail(cs))

startsWith(cs, pre) == Len(pre) <= Len(cs) /\ SubSeq(cs, 1, Len(pre)) = pre

RECURSIVE trimStart(_)
trimStart(cs) == IF cs # << >> /\ Head(cs) = " " THEN trimStart(Tail(cs)) ELSE cs

\* value.replace(/,/g, '')
removeCommas(cs) == SelectSeq(cs, LAMBDA c : c # ",")

\* parseFloat on the characters of a string (integer literals; no fraction or
\* exponent part occurs in the payloads): leading white space is skipped, then
\* a sign, then Infinity or the longest run of digits; anything after it is
\* ignored, and NaN is the result when there is neither
parseFloat(cs) ==
    LET body == trimStart(cs)
        neg == body # << >> /\ Head(body) = "-"
        signed == body # << >> /\ Head(body) \in {"-", "+"}
        rest == IF signed THEN Tail(body) ELSE body
        digits == DigitPrefix(rest)
    IN  IF startsWith(rest, CharsOf("Infinity"))
        THEN [ nan |-> FALSE, n |-> IF neg THEN NegInfinity ELSE Infinity ]
        ELSE IF digits = << >>
        THEN [ nan |-> TRUE, n |-> 0 ]
        ELSE [ nan |-> FALSE, n |-> IF neg THEN 0 - DigitsValue(digits) ELSE DigitsValue(digits) ]

getNumericValue(value) ==
    IF value.t = "undefined" \/ value.t = "null" THEN 0
    ELSE IF value.t = "number" THEN (IF value.nan THEN 0 ELSE value.n)
    ELSE IF value.t = "string"
    THEN IF trim(CharsOf(value.s)) = << >> THEN 0
         ELSE LET num == parseFloat(removeCommas(CharsOf(value.s)))
              IN  IF num.nan THEN 0 ELSE num.n
    ELSE 0

\* item.key || "" for the text fields (strings or missing in the payloads)
orEmpty(value) == IF value.t = "string" THEN value.s ELSE ""

NumericFields == { "yearBuilt", "siteEnergyUseKbtu", "propertyGFA", "percentGreenPower",
                   "waterUseKgal", "totalElectricityUseKWh", "siteEnergyUsedPerSqrFt",
                   "elecUsedPerSqrFt" }
TextFields == { "propertyId", "propertyName", "departmentName", "primaryPropertyType",
                "city", "address1", "leedCertified" }

\* an item of the payload; keys that are not given are missing
RawItem(given) ==
    [k \in NumericFields \cup TextFields |-> IF k \in DOMAIN given THEN given[k] ELSE JUndefined]

RawAnnex ==
    RawItem([ propertyId |-> JString("P1"), propertyName |-> JString("Annex"),
              departmentName |-> JString("DGS"), primaryPropertyType |-> JString("Office"),
              city |-> JString("Davis"), address1 |-> JString("K St"),
              leedCertified |-> JString("Gold"), yearBuilt |-> JNumber(1950),
              siteEnergyUseKbtu |-> JString("500"), propertyGFA |-> JString("1,000"),
              percentGreenPower |-> JString(" 10 ") ])
RawBlank ==
    RawItem([ propertyId |-> JString("P2"), propertyName |-> JNull,
              yearBuilt |-> JString("   "), siteEnergyUseKbtu |-> JNull,
              percentGreenPower |-> JString("") ])
RawGarbled ==
    RawItem([ propertyId |-> JString("P3"), propertyName |-> JString("Lot \"B\""),
              address1 |-> JString("C:\\"), yearBuilt |-> JString("abc"),
              siteEnergyUseKbtu |-> JString("12abc"), propertyGFA |-> JTrue,
              percentGreenPower |-> JString("-7") ])
RawNaN ==
    RawItem([ propertyId |-> JString("P4"), yearBuilt |-> JNumber(2005),
              siteEnergyUseKbtu |-> JString("NaN"), propertyGFA |-> JNaN ])
RawInfinite ==
    RawItem([ propertyId |-> JString("P5"), yearBuilt |-> JNumber(1990),
              siteEnergyUseKbtu |-> JNumber(Infinity), propertyGFA |-> JString("Infinity"),
              percentGreenPower |-> JString("-Infinity") ])

RawItems == { RawAnnex, RawBlank, RawGarbled, RawNaN, RawInfinite }

\* what response.json() may deliver: a rejected fetch or parse ("error"), a
\* value that is not an array ("object"), or an array of items
RawPayloads ==
    { [ kind |-> "error", items |-> << >> ], [ kind |-> "object", items |-> << >> ] }
    \cup { [ kind |-> "array", items |-> items ] :
             items \in { << >> } \cup { << a >> : a \in RawItems }
                       \cup { << a, b >> : a \in RawItems, b \in RawItems } }

\* fetchDataAndParse: the normalised records, or no record after an error
fetchDataAndParse(payload) ==
    IF payload.kind = "array"
    THEN [i \in 1..Len(payload.items) |->
            LET item == payload.items[i]
            IN  [k \in NumericFields \cup TextFields |->
                    IF k \in NumericFields THEN getNumericValue(item[k]) ELSE orEmpty(item[k])]]
    ELSE << >>

-----------------------------------------------------------------------------
(* Filter engine *)

DefaultFilters ==
    [ departments |-> << >>, propertyTypes |-> << >>,
      yearRange |-> << 1900, 2025 >>, energyRange |-> << 0, Infinity >>,
      gfaRange |-> << 0, Infinity >>, leedCertified |-> Null,
      searchTerm |-> "", selectedCity |-> Null ]

isLeedCertified(item) ==
    LET leedStatus == IF item.leedCertified # ""
                      THEN toLowerCase(trim(CharsOf(item.leedCertified)))
                      ELSE << >>
    IN  /\ leedStatus # << >>
        /\ leedStatus # CharsOf("no")
        /\ leedStatus # CharsOf("not applicable")

searchableText(item) ==
    toLowerCase(CharsOf(item.propertyName) \o CharsOf(" ") \o CharsOf(item.departmentName)
                \o CharsOf(" ") \o CharsOf(item.address1) \o CharsOf(" ") \o CharsOf(item.city))

passesFilters_exclusive(item, f) ==
    /\ ~ (Len(f.departments) > 0 /\ ~ Contains(f.departments, item.departmentName))
    /\ ~ (Len(f.propertyTypes) > 0 /\ ~ Contains(f.propertyTypes, item.primaryPropertyType))
    /\ ~ (item.yearBuilt < f.yearRange[1] \/ item.yearBuilt >= f.yearRange[2])
    /\ ~ (item.siteEnergyUseKbtu < f.energyRange[1] \/ item.siteEnergyUseKbtu > f.energyRange[2])
    /\ ~ (item.propertyGFA < f.gfaRange[1] \/ item.propertyGFA > f.gfaRange[2])
    /\ (f.leedCertified # Null =>
          /\ ~ (f.leedCertified = "certified" /\ ~ isLeedCertified(item))
          /\ ~ (f.leedCertified = "not-certified" /\ isLeedCertified(item)))
    /\ (f.searchTerm # "" =>
          includes(searchableText(item), toLowerCase(CharsOf(f.searchTerm))))
    /\ ~ (f.selectedCity # Null /\ item.city # f.selectedCity)

passesFilters(item, f) ==
    /\ ~ (Len(f.departments) > 0 /\ ~ Contains(f.departments, item.departmentName))
    /\ ~ (Len(f.propertyTypes) > 0 /\ ~ Contains(f.propertyTypes, item.primaryPropertyType))
    /\ ~ (item.yearBuilt < f.yearRange[1] \/ item.yearBuilt > f.yearRange[2])
    /\ ~ (item.siteEnergyUseKbtu < f.energyRange[1] \/ item.siteEnergyUseKbtu > f.energyRange[2])
    /\ ~ (item.propertyGFA < f.gfaRange[1] \/ item.propertyGFA > f.gfaRange[2])
    /\ (f.leedCertified # Null =>
          /\ ~ (f.leedCertified = "certified" /\ ~ isLeedCertified(item))
          /\ ~ (f.leedCertified = "not-certified" /\ isLeedCertified(item)))
    /\ (f.searchTerm # "" =>
          includes(searchableText(item), toLowerCase(CharsOf(f.searchTerm))))
    /\ ~ (f.selectedCity # Null /\ item.city # f.selectedCity)

applyFilters_reversed(data, f) ==
    LET Pass(item) == passesFilters(item, f) IN Reverse(SelectSeq(data, Pass))

applyFilters(data, f) ==
    LET Pass(item) == passesFilters(item, f) IN SelectSeq(data, Pass)


-----------------------------------------------------------------------------
(* Aggregation: categorical count, sorted descending, truncated *)

RECURSIVE Distinct(_)
Distinct(seq) ==
    IF seq = << >> THEN << >>
    ELSE LET rest == Distinct(SubSeq(seq, 1, Len(seq) - 1))
             x == seq[Len(seq)]
         IN  IF Contains(rest, x) THEN rest ELSE Append(rest, x)

CountOf(seq, x) == Cardinality({i \in 1..Len(seq) : seq[i] = x})

\* insert entry e behind every entry whose count is at least e's (stable, descending)
RECURSIVE InsertDesc(_, _)
InsertDesc(sorted, e) ==
    IF sorted = << >> THEN << e >>
    ELSE IF Head(sorted)[2] >= e[2] THEN << Head(sorted) >> \o InsertDesc(Tail(sorted), e)
    ELSE << e >> \o sorted

RECURSIVE SortDesc(_)
SortDesc(entries) ==
    IF entries = << >> THEN << >>
    ELSE InsertDesc(SortDesc(SubSeq(entries, 1, Len(entries) - 1)), entries[Len(entries)])

slice(seq, n) == SubSeq(seq, 1, IF Len(seq) < n THEN Len(seq) ELSE n)

\* Object.entries(counts).sort(([,a],[,b]) => b-a).slice(0, n) for the keys given by labelsOf
sortedCounts(labelsOf, n) ==
    LET keys == Distinct(labelsOf)
        entries == [i \in 1..Len(keys) |-> << keys[i], CountOf(labelsOf, keys[i]) >>]
    IN  slice(SortDesc(entries), n)

orUnknown(v, unknown) == IF v = "" THEN unknown ELSE v

deptLabels(data) == [i \in 1..Len(data) |-> orUnknown(data[i].departmentName, "Unknown Department")]
typeLabels(data) == [i \in 1..Len(data) |-> orUnknown(data[i].primaryPropertyType, "Unknown Type")]
cityLabels(data) == [i \in 1..Len(data) |-> orUnknown(data[i].city, "Unknown City")]

-----------------------------------------------------------------------------
(* Charts *)

\* items: the records behind the data points, for the charts that plot one
\* record per point
Chart(canvasId, entries, cycle) ==
    [ canvasId |-> canvasId,
      labels |-> [i \in 1..Len(entries) |-> entries[i][1]],
      data |-> [i \in 1..Len(entries) |-> entries[i][2]],
      items |-> << >>,
      cycle |-> cycle ]

renderOverviewCharts(data, cycle) ==
    << Chart("chart-deptDistribution", sortedCounts(deptLabels(data), 15), cycle),
       Chart("chart-propertyTypes", sortedCounts(typeLabels(data), 10), cycle) >>

renderGeographicFootprint(data, cycle) ==
    << Chart("chart-cityDistribution", sortedCounts(cityLabels(data), 20), cycle) >>

\* pairs << x, key >> in descending order of key, equal keys in their given
\* order (Array.prototype.sort is stable), and the x of each pair
firsts(pairs) == [i \in 1..Len(pairs) |-> pairs[i][1]]

sortDescending(xs, keys) == firsts(SortDesc([i \in 1..Len(xs) |-> << xs[i], keys[i] >>]))

sortAscending(xs, keys) == firsts(SortDesc([i \in 1..Len(xs) |-> << xs[i], 0 - keys[i] >>]))

\* seq.slice(-n)
sliceLast(seq, n) == SubSeq(seq, IF Len(seq) > n THEN Len(seq) - n + 1 ELSE 1, Len(seq))

\* Math.ceil(a / b) and Math.floor(a / b) for a >= 0, b > 0
ceilDiv(a, b) == (a + b - 1) \div b
floorDiv(a, b) == a \div b

\* n.toLocaleString() for a non-negative integer (en-US grouping)
RECURSIVE groupThousands(_)
groupThousands(cs) ==
    IF Len(cs) <= 3 THEN cs
    ELSE groupThousands(SubSeq(cs, 1, Len(cs) - 3)) \o << "," >> \o SubSeq(cs, Len(cs) - 2, Len(cs))

toLocaleString(n) == groupThousands(DigitsOf(n))

\* label.split('-')[0]
RECURSIVE beforeDash(_)
beforeDash(cs) ==
    IF cs = << >> \/ Head(cs) = "-" THEN << >> ELSE << Head(cs) >> \o beforeDash(Tail(cs))

\* parseInt(label.split('-')[0].replace(/,/g, ''))
binStartOfLabel(label) == DigitsValue(DigitPrefix(removeCommas(beforeDash(label))))

binStart_ceiling(value, binSize) == ceilDiv(value, binSize) * binSize

\* Math.floor(value / binSize) * binSize
binStart(value, binSize) == floorDiv(value, binSize) * binSize

\* the counts per label in the order the labels first occur
countsByLabel(labelsOf) ==
    LET keys == Distinct(labelsOf)
    IN  [i \in 1..Len(keys) |-> << keys[i], CountOf(labelsOf, keys[i]) >>]

waterUsePositive(data) ==
    SelectSeq([i \in 1..Len(data) |-> data[i].waterUseKgal], LAMBDA v : v > 0)

waterBinSize(values) ==
    LET size == ceilDiv(MathMax(values), 10) IN IF size = 0 THEN 100 ELSE size

waterBins(data) ==
    LET values == waterUsePositive(data)
        binSize == waterBinSize(values)
        binLabel(v) == toLocaleString(binStart(v, binSize)) \o << "-" >>
                       \o toLocaleString(binStart(v, binSize) + binSize - 1) \o CharsOf(" kgal")
        bins == countsByLabel([i \in 1..Len(values) |-> binLabel(values[i])])
    IN  IF values = << >> THEN << << CharsOf("No Water Usage Data"), 0 >> >>
        ELSE sortAscending(bins, [i \in 1..Len(bins) |-> binStartOfLabel(bins[i][1])])

energyIntensityData(data) ==
    LET qualifying == SelectSeq(data, LAMBDA d : /\ d.siteEnergyUsedPerSqrFt > 0
                                                 /\ d.siteEnergyUsedPerSqrFt < 1000
                                                 /\ d.propertyGFA > 100)
    IN  [i \in 1..Len(qualifying) |-> qualifying[i].siteEnergyUsedPerSqrFt]

energyIntensityBinSize(values) ==
    LET size == ceilDiv(MathMax(values), 15) IN IF size = 0 THEN 10 ELSE size

energyIntensityBins(data) ==
    LET values == energyIntensityData(data)
        binSize == energyIntensityBinSize(values)
        binLabel(v) == DigitsOf(binStart(v, binSize)) \o << "-" >>
                       \o DigitsOf(binStart(v, binSize) + binSize - 1)
    IN  IF values = << >> THEN << >>
        ELSE countsByLabel([i \in 1..Len(values) |-> binLabel(values[i])])

\* a chart with one data point per record
RankingChart(canvasId, items, values, cycle) ==
    [ canvasId |-> canvasId,
      labels |-> [i \in 1..Len(items) |-> orUnknown(items[i].propertyName, "Unknown Property")],
      data |-> values,
      items |-> items,
      cycle |-> cycle ]

valuesOf(items, key) == [i \in 1..Len(items) |-> items[i][key]]

topEnergyConsumers(data) ==
    LET positive == SelectSeq(data, LAMBDA d : d.siteEnergyUseKbtu > 0)
    IN  slice(sortDescending(positive, valuesOf(positive, "siteEnergyUseKbtu")), 10)

topWaterConsumers(data) ==
    LET positive == SelectSeq(data, LAMBDA d : d.waterUseKgal > 0)
    IN  slice(sortDescending(positive, valuesOf(positive, "waterUseKgal")), 10)

buildingsWithEfficiency(data) ==
    LET rated == SelectSeq(data, LAMBDA d : d.siteEnergyUsedPerSqrFt > 0 /\ d.propertyGFA > 1000)
    IN  sortAscending(rated, valuesOf(rated, "siteEnergyUsedPerSqrFt"))

topPerformers(data) == slice(buildingsWithEfficiency(data), 10)

bottomPerformers(data) == Reverse(sliceLast(buildingsWithEfficiency(data), 10))

electricalEfficiencyData(data) ==
    LET rated == SelectSeq(data, LAMBDA d : /\ d.elecUsedPerSqrFt > 0
                                            /\ d.elecUsedPerSqrFt < 200
                                            /\ d.propertyGFA > 500)
    IN  sortAscending(rated, valuesOf(rated, "elecUsedPerSqrFt"))

topElectricalPerformers(data) == slice(electricalEfficiencyData(data), 15)

bottomElectricalPerformers(data) == Reverse(sliceLast(electricalEfficiencyData(data), 15))

\* index < n ? top[index] : bottom[index - n] for the bar at position index
\* (counted from 1 here); the empty sequence stands for undefined, on which the
\* tooltip callback throws
performerAt(index, top, bottom, n) ==
    IF index - 1 < n
    THEN IF index <= Len(top) THEN << top[index] >> ELSE << >>
    ELSE IF index - n <= Len(bottom) THEN << bottom[index - n] >> ELSE << >>

\* the building the afterBody callback of the leaders-vs-laggards chart reads
efficiencyTooltip(index, data) ==
    performerAt(index, topPerformers(data), bottomPerformers(data), 10)

\* the building the afterBody callback of the electrical chart reads
electricalTooltip(index, data) ==
    performerAt(index, topElectricalPerformers(data), bottomElectricalPerformers(data), 15)

\* the records the scatter plot keeps
filteredScatterData(data) ==
    SelectSeq(data, LAMBDA d : /\ d.propertyGFA > 100 /\ d.propertyGFA < 1000000
                               /\ d.siteEnergyUseKbtu > 1000
                               /\ d.siteEnergyUseKbtu < 50000000)

\* a chart without labels, one point per record kept
ScatterChart(canvasId, items, cycle) ==
    [ canvasId |-> canvasId,
      labels |-> << >>,
      data |-> [i \in 1..Len(items) |->
                  [ x |-> items[i].propertyGFA, y |-> items[i].siteEnergyUseKbtu,
                    type |-> orUnknown(items[i].primaryPropertyType, "Unknown"),
                    name |-> orUnknown(items[i].propertyName, "Unknown Property") ]],
      items |-> items,
      cycle |-> cycle ]

renderEnergyConsumptionCharts(data, cycle) ==
    << ScatterChart("chart-energyVsGfa", filteredScatterData(data), cycle),
       RankingChart("chart-topEnergyConsumers", topEnergyConsumers(data),
                    valuesOf(topEnergyConsumers(data), "siteEnergyUseKbtu"), cycle) >>

renderWaterUsageCharts(data, cycle) ==
    << Chart("chart-waterUsageDistribution", waterBins(data), cycle),
       RankingChart("chart-topWaterConsumers", topWaterConsumers(data),
                    valuesOf(topWaterConsumers(data), "waterUseKgal"), cycle) >>

renderEfficiencyAnalysis(data, cycle) ==
    << Chart("chart-energyIntensityDistribution", energyIntensityBins(data), cycle),
       RankingChart("chart-efficiencyPerformers", topPerformers(data) \o bottomPerformers(data),
                    valuesOf(topPerformers(data) \o bottomPerformers(data), "siteEnergyUsedPerSqrFt"),
                    cycle),
       RankingChart("chart-electricalEfficiency",
                    topElectricalPerformers(data) \o bottomElectricalPerformers(data),
                    valuesOf(topElectricalPerformers(data) \o bottomElectricalPerformers(data),
                             "elecUsedPerSqrFt"),
                    cycle) >>

greenPowerBin_zeroInFirstRange(d) ==
    LET p == d.percentGreenPower
    IN  IF p >= 0 /\ p <= 25 THEN "1-25%"
        ELSE IF p > 25 /\ p <= 50 THEN "26-50%"
        ELSE IF p > 50 /\ p <= 75 THEN "51-75%"
        ELSE IF p > 75 /\ p <= 100 THEN "76-100%"
        ELSE "Not Reported/Applicable"

\* the bin of a record that uses electricity
greenPowerBin(d) ==
    LET p == d.percentGreenPower
    IN  IF p = 0 THEN "0% Usage"
        ELSE IF p > 0 /\ p <= 25 THEN "1-25%"
        ELSE IF p > 25 /\ p <= 50 THEN "26-50%"
        ELSE IF p > 50 /\ p <= 75 THEN "51-75%"
        ELSE IF p > 75 /\ p <= 100 THEN "76-100%"
        ELSE "Not Reported/Applicable"

greenPowerLabels ==
    << "0% Usage", "1-25%", "26-50%", "51-75%", "76-100%", "Not Reported/Applicable" >>

greenPowerBins(data) ==
    LET users == SelectSeq(data, LAMBDA d : d.totalElectricityUseKWh > 0)
        binsOf == [i \in 1..Len(users) |-> greenPowerBin(users[i])]
    IN  [i \in 1..Len(greenPowerLabels) |->
            << greenPowerLabels[i], CountOf(binsOf, greenPowerLabels[i]) >>]

renderGreenPowerCharts(data, cycle) ==
    << Chart("chart-greenPowerDistribution", greenPowerBins(data), cycle) >>

yearBin(year) ==
    IF year = 0 \/ year = 1899 THEN "Unknown/Pre-1899"
    ELSE IF year < 1900 THEN "Pre-1900"
    ELSE IF year < 1920 THEN "1900-1919"
    ELSE IF year < 1940 THEN "1920-1939"
    ELSE IF year < 1960 THEN "1940-1959"
    ELSE IF year < 1980 THEN "1960-1979"
    ELSE IF year < 2000 THEN "1980-1999"
    ELSE "2000-Present"

yearLabels ==
    << "Pre-1900", "1900-1919", "1920-1939", "1940-1959", "1960-1979", "1980-1999",
       "2000-Present", "Unknown/Pre-1899" >>

yearBins(data) ==
    LET binsOf == [i \in 1..Len(data) |-> yearBin(data[i].yearBuilt)]
    IN  [i \in 1..Len(yearLabels) |-> << yearLabels[i], CountOf(binsOf, yearLabels[i]) >>]

renderBuildingAge(data, cycle) ==
    << Chart("chart-buildingAgeDistribution", yearBins(data), cycle) >>

\* the charts one render callback creates (of each view, the charts modelled)
renderView(viewName, data, cycle) ==
    CASE viewName = "overview" -> renderOverviewCharts(data, cycle)
      [] viewName = "energyConsumption" -> renderEnergyConsumptionCharts(data, cycle)
      [] viewName = "greenPower" -> renderGreenPowerCharts(data, cycle)
      [] viewName = "waterUsage" -> renderWaterUsageCharts(data, cycle)
      [] viewName = "geographicFootprint" -> renderGeographicFootprint(data, cycle)
      [] viewName = "buildingAge" -> renderBuildingAge(data, cycle)
      [] viewName = "efficiencyAnalysis" -> renderEfficiencyAnalysis(data, cycle)
      [] OTHER -> renderOverviewCharts(data, cycle)

\* charts whose canvas is in the document: those of the render callback that ran last
visibleCharts ==
    IF activeCharts = << >> THEN {}
    ELSE {activeCharts[i] : i \in {j \in 1..Len(activeCharts) :
                                     activeCharts[j].cycle = activeCharts[Len(activeCharts)].cycle}}

idIncludes(id, sub) == includes(CharsOf(id), CharsOf(sub))

-----------------------------------------------------------------------------
(* Drill-down *)

getRelatedBuildings(label, chartId, filtered) ==
    LET dept(b) == b.departmentName = label
        type(b) == b.primaryPropertyType = label
        city(b) == b.city = label
        age(b) ==
            LET year == b.yearBuilt
            IN  CASE label = "Pre-1900" -> year > 0 /\ year < 1900
                  [] label = "1900-1919" -> year >= 1900 /\ year < 1920
                  [] label = "1920-1939" -> year >= 1920 /\ year < 1940
                  [] label = "1940-1959" -> year >= 1940 /\ year < 1960
                  [] label = "1960-1979" -> year >= 1960 /\ year < 1980
                  [] label = "1980-1999" -> year >= 1980 /\ year < 2000
                  [] label = "2000-Present" -> year >= 2000
                  [] label = "Unknown/Pre-1899" -> year = 0 \/ year = 1899
                  [] OTHER -> FALSE
        green(b) ==
            LET greenPercent == b.percentGreenPower
            IN  CASE label = "0% Usage" -> greenPercent = 0
                  [] label = "1-25%" -> greenPercent > 0 /\ greenPercent <= 25
                  [] label = "26-50%" -> greenPercent > 25 /\ greenPercent <= 50
                  [] label = "51-75%" -> greenPercent > 50 /\ greenPercent <= 75
                  [] label = "76-100%" -> greenPercent > 75 /\ greenPercent <= 100
                  [] OTHER -> FALSE
    IN  IF label = "" \/ chartId = "" THEN << >>
        ELSE IF idIncludes(chartId, "deptDistribution") THEN SelectSeq(filtered, dept)
        ELSE IF idIncludes(chartId, "propertyTypes") THEN SelectSeq(filtered, type)
        ELSE IF idIncludes(chartId, "cityDistribution") THEN SelectSeq(filtered, city)
        ELSE IF idIncludes(chartId, "buildingAge") THEN SelectSeq(filtered, age)
        ELSE IF idIncludes(chartId, "greenPower") THEN SelectSeq(filtered, green)
        ELSE << >>

\* Math.round of total / count for non-negative integers
roundDiv(total, count) == ((2 * total) + count) \div (2 * count)

\* the texts updateQuickStats writes into the three quick-stat elements
updateQuickStats(data) ==
    LET validEnergyBuildings ==
            SelectSeq(data, LAMBDA b : b.siteEnergyUseKbtu > 0 /\ b.siteEnergyUseKbtu < Infinity)
        avgEnergyUse ==
            IF Len(validEnergyBuildings) > 0
            THEN roundDiv(Sum([i \in 1..Len(validEnergyBuildings) |->
                                validEnergyBuildings[i].siteEnergyUseKbtu]),
                          Len(validEnergyBuildings))
            ELSE 0
        isGreen(b) ==
            LET hasGreenPower == b.percentGreenPower > 0 /\ b.percentGreenPower < Infinity
                leedStatus == toLowerCase(CharsOf(b.leedCertified))
                certified == /\ b.leedCertified # ""
                             /\ leedStatus # CharsOf("no")
                             /\ leedStatus # CharsOf("not applicable")
            IN  hasGreenPower \/ certified
    IN  [ totalProperties |-> toLocaleString(Len(data)),
          avgEnergy |-> toLocaleString(avgEnergyUse) \o CharsOf(" kBtu"),
          greenBuildings |-> toLocaleString(Len(SelectSeq(data, isGreen))) ]

\* the quick-stat elements as the page delivers them
InitialStats == [ totalProperties |-> << >>, avgEnergy |-> << >>, greenBuildings |-> << >> ]

\* no building-details modal in the document
NoModal == [ open |-> FALSE, propertyId |-> "", propertyName |-> "" ]

\* showBuildingDetailsModal: the overlay names the building in its header and
\* carries its propertyId in the comparison button
showBuildingDetailsModal(building) ==
    [ open |-> TRUE, propertyId |-> building.propertyId,
      propertyName |-> orUnknown(building.propertyName, "Unknown Property") ]

\* dataIndex counts from 1 here; the record is looked up in the active set
handleScatterPointClick(dataIndex, filtered, existing) ==
    IF dataIndex <= Len(filtered) THEN showBuildingDetailsModal(filtered[dataIndex])
    ELSE existing

\* no drill-down panel in the document; panels counts the elements with the
\* id drill-down-panel, the other fields describe the one created last
NoPanel == [ open |-> FALSE, label |-> "", chartId |-> "", buildings |-> 0, panels |-> 0 ]

\* document.getElementById('drill-down-panel')?.remove()
removePanel(panel) ==
    IF panel.panels > 1 THEN [panel EXCEPT !.panels = @ - 1] ELSE NoPanel

showDrillDownPanel_keepsExisting(label, chartId, filtered, existing) ==
    LET relatedBuildings == getRelatedBuildings(label, chartId, filtered)
    IN  IF Len(relatedBuildings) = 0 THEN existing
        ELSE [ open |-> TRUE, label |-> label, chartId |-> chartId,
               buildings |-> Len(relatedBuildings), panels |-> existing.panels + 1 ]

\* the panels showDrillDownPanel leaves in the document, given the ones it finds
showDrillDownPanel(label, chartId, filtered, existing) ==
    LET rest == removePanel(existing)
        relatedBuildings == getRelatedBuildings(label, chartId, filtered)
    IN  IF Len(relatedBuildings) = 0 THEN rest
        ELSE [ open |-> TRUE, label |-> label, chartId |-> chartId,
               buildings |-> Len(relatedBuildings), panels |-> rest.panels + 1 ]

-----------------------------------------------------------------------------
(* Narrative captions *)

\* no response has arrived yet
NoResponse == [ id |-> "", attached |-> FALSE ]

\* API_KEY is the empty string in the source; apiKey tells whether the
\* deployment has filled it in. A container is a story element attached to the
\* document, key is the identity of the element, id the canvas its story
\* belongs to; a request remembers the element it was started for
InitialStories ==
    [ apiKey |-> FALSE, containers |-> {}, requests |-> {}, lastResponse |-> NoResponse ]

\* identities not held by an element that a pending request still references
freeKeys(st) == (1..MaxRequests) \ {r.key : r \in st.requests}

nthFreeKey(st, n) ==
    CHOOSE k \in freeKeys(st) : Cardinality({j \in freeKeys(st) : j < k}) = n - 1

\* vizArea.innerHTML = ...: the story elements leave the document
clearStories(st) == [st EXCEPT !.containers = {}]

\* createVisualizationContainer and the synchronous part of
\* generateAndDisplayStory for each chart a renderer creates
withStories(st, charts) ==
    LET made(i) == [ key |-> nthFreeKey(st, i), id |-> charts[i].canvasId,
                     loader |-> IF st.apiKey THEN "flex" ELSE "removed",
                     content |-> IF st.apiKey THEN << >> ELSE << "not-configured" >> ]
        asked(i) == [ key |-> nthFreeKey(st, i), id |-> charts[i].canvasId ]
    IN  [st EXCEPT !.containers = @ \cup {made(i) : i \in 1..Len(charts)},
                   !.requests = IF st.apiKey
                                THEN @ \cup {asked(i) : i \in 1..Len(charts)}
                                ELSE @]

storyContainer_byId(st, request) == {c \in st.containers : c.id = request.id}

\* the element generateAndDisplayStory looked up before the request, if it is
\* still in the document
storyContainer(st, request) == {c \in st.containers : c.key = request.key}

\* the response of a story request arrives: the paragraph is appended to the
\* element and its loader hidden
StoryResolves(request) ==
    /\ request \in stories.requests
    /\ LET own == storyContainer(stories, request)
       IN  stories' = [stories EXCEPT
              !.requests = @ \ {request},
              !.containers = (@ \ own) \cup
                  {[c EXCEPT !.loader = "none", !.content = Append(@, "story")] : c \in own},
              !.lastResponse = [ id |-> request.id, attached |-> own # {} ]]
    /\ UNCHANGED << phase, allBuildingData, filteredBuildingData, currentFilters,
                    selectedItems, comparisonMode, currentView, activeCharts,
                    renderTimers, searchTimers, searchInputValue, deptChecked,
                    drillDownPanel, notification, lastExport, searchBurst,
                    preToggle, vizArea, quickStats, modal >>

\* the request fails: the content of the element is replaced by the message
StoryFails(request) ==
    /\ request \in stories.requests
    /\ LET own == storyContainer(stories, request)
       IN  stories' = [stories EXCEPT
              !.requests = @ \ {request},
              !.containers = (@ \ own) \cup
                  {[c EXCEPT !.loader = "removed", !.content = << "error-message" >>] : c \in own},
              !.lastResponse = [ id |-> request.id, attached |-> own # {} ]]
    /\ UNCHANGED << phase, allBuildingData, filteredBuildingData, currentFilters,
                    selectedItems, comparisonMode, currentView, activeCharts,
                    renderTimers, searchTimers, searchInputValue, deptChecked,
                    drillDownPanel, notification, lastExport, searchBurst,
                    preToggle, vizArea, quickStats, modal >>

-----------------------------------------------------------------------------
(* Initial state: the module-level declarations *)

\* typed: an input event has happened; inputs: the input events of the current
\* burst (2 stands for two or more); elapsed: the time since the last input
\* event, up to SEARCH_DELAY; updates: the recomputations the search timer ran
\* since the last input event; quiet: the time since the last input event at
\* which the last of them ran
NoBurst == [ typed |-> FALSE, inputs |-> 0, elapsed |-> 0, updates |-> 0, quiet |-> 0 ]

NoToggle == [ label |-> "", pre |-> << >>, stage |-> "none" ]

\* content: what #visualization-content holds; display and loader: the inline
\* style.display of #visualization-content and of #loader ("" while never set)
InitialArea == [ content |-> "", display |-> "", loader |-> "" ]

NoExport == [ path |-> Null, records |-> 0, download |-> FALSE, threw |-> FALSE, notified |-> Null,
              format |-> Null, json |-> << >> ]

Init ==
    /\ phase = "loading"
    /\ allBuildingData = << >>
    /\ filteredBuildingData = << >>
    /\ currentFilters = DefaultFilters
    /\ selectedItems = << >>
    /\ comparisonMode = FALSE
    /\ currentView = "overview"
    /\ activeCharts = << >>
    /\ renderTimers = << >>
    /\ searchTimers = << >>
    /\ searchInputValue = ""
    /\ deptChecked = {}
    /\ drillDownPanel = NoPanel
    /\ notification = Null
    /\ lastExport = NoExport
    /\ searchBurst = NoBurst
    /\ preToggle = NoToggle
    /\ vizArea = InitialArea
    /\ quickStats = InitialStats
    /\ stories = InitialStories
    /\ modal = NoModal

-----------------------------------------------------------------------------
(* The recompute-and-rerender cycle *)

\* history: a tag for the render cycle a displayVisualization call starts,
\* unused by any pending callback (the call destroys every live chart)
freshCycle ==
    LET used == {renderTimers[i].cycle : i \in 1..Len(renderTimers)}
        free == (1..MaxPending) \ used
    IN  CHOOSE c \in free : \A d \in free : c <= d

\* destroyActiveCharts: every live chart is destroyed and the list emptied
destroyActiveCharts == << >>

displayVisualization(viewName, dataToUse) ==
    /\ Len(renderTimers) < MaxPending
    /\ currentView' = viewName
    /\ vizArea' = [vizArea EXCEPT !.loader = "flex", !.display = "none"]
    /\ activeCharts' = destroyActiveCharts
    /\ stories' = stories
    /\ renderTimers' = Append(renderTimers,
            [ viewName |-> viewName, dataToUse |-> dataToUse,
              cycle |-> freshCycle, left |-> RENDER_DELAY ])

updateFilteredData_staleData(f) ==
    /\ currentFilters' = f
    /\ filteredBuildingData' = applyFilters(allBuildingData, f)
    /\ modal' = NoModal
    /\ quickStats' = updateQuickStats(applyFilters(allBuildingData, f))
    /\ displayVisualization(currentView, filteredBuildingData)

\* updateFilteredData after the handler has brought FilterState to f;
\* the handler decides what becomes of the drill-down panel afterwards
updateFilteredData(f) ==
    /\ currentFilters' = f
    /\ filteredBuildingData' = applyFilters(allBuildingData, f)
    /\ modal' = NoModal
    /\ quickStats' = updateQuickStats(applyFilters(allBuildingData, f))
    /\ displayVisualization(currentView, applyFilters(allBuildingData, f))

\* the callback of displayVisualization's setTimeout
RenderTimerFires ==
    /\ renderTimers # << >>
    /\ Head(renderTimers).left = 0
    /\ LET t == Head(renderTimers)
           charts == renderView(t.viewName, t.dataToUse, t.cycle)
       IN  /\ activeCharts' = activeCharts \o charts
           /\ Len(charts) <= Cardinality(freeKeys(stories))
           /\ stories' = withStories(clearStories(stories), charts)
    /\ renderTimers' = Tail(renderTimers)
    /\ vizArea' = [ content |-> "charts", display |-> "block", loader |-> "none" ]
    /\ UNCHANGED << phase, allBuildingData, filteredBuildingData, currentFilters,
                    selectedItems, comparisonMode, currentView, searchTimers,
                    searchInputValue, deptChecked, drillDownPanel, notification,
                    lastExport, searchBurst, preToggle, quickStats, modal >>

RenderTimerThrows_noFinally ==
    /\ renderTimers # << >>
    /\ Head(renderTimers).left = 0
    /\ LET t == Head(renderTimers)
           charts == renderView(t.viewName, t.dataToUse, t.cycle)
       IN  \E created \in 0..(Len(charts) - 1) :
               /\ activeCharts' = activeCharts \o SubSeq(charts, 1, created)
               /\ created <= Cardinality(freeKeys(stories))
               /\ stories' = clearStories(withStories(clearStories(stories),
                                                       SubSeq(charts, 1, created)))
    /\ renderTimers' = Tail(renderTimers)
    /\ vizArea' = [vizArea EXCEPT !.content = "render-error"]
    /\ UNCHANGED << phase, allBuildingData, filteredBuildingData, currentFilters,
                    selectedItems, comparisonMode, currentView, searchTimers,
                    searchInputValue, deptChecked, drillDownPanel, notification,
                    lastExport, searchBurst, preToggle, quickStats, modal >>

\* the callback of displayVisualization's setTimeout when the renderer of the
\* view throws: the charts it had created by then stay in activeCharts, the
\* catch block replaces the content, the finally block hides the loader
RenderTimerThrows ==
    /\ renderTimers # << >>
    /\ Head(renderTimers).left = 0
    /\ LET t == Head(renderTimers)
           charts == renderView(t.viewName, t.dataToUse, t.cycle)
       IN  \E created \in 0..(Len(charts) - 1) :
               /\ activeCharts' = activeCharts \o SubSeq(charts, 1, created)
               /\ created <= Cardinality(freeKeys(stories))
               /\ stories' = clearStories(withStories(clearStories(stories),
                                                       SubSeq(charts, 1, created)))
    /\ renderTimers' = Tail(renderTimers)
    /\ vizArea' = [ content |-> "render-error", display |-> "block", loader |-> "none" ]
    /\ UNCHANGED << phase, allBuildingData, filteredBuildingData, currentFilters,
                    selectedItems, comparisonMode, currentView, searchTimers,
                    searchInputValue, deptChecked, drillDownPanel, notification,
                    lastExport, searchBurst, preToggle, quickStats, modal >>

\* RENDER_DELAY milliseconds pass; a timer that is due runs before time moves on
Tick ==
    /\ renderTimers # << >> \/ searchTimers # << >>
    /\ \A i \in 1..Len(renderTimers) : renderTimers[i].left > 0
    /\ \A i \in 1..Len(searchTimers) : searchTimers[i] > 0
    /\ renderTimers' = [i \in 1..Len(renderTimers) |->
                          [renderTimers[i] EXCEPT !.left = @ - RENDER_DELAY]]
    /\ searchTimers' = [i \in 1..Len(searchTimers) |-> searchTimers[i] - RENDER_DELAY]
    /\ searchBurst' = IF searchBurst.typed /\ searchBurst.elapsed < SEARCH_DELAY
                      THEN [searchBurst EXCEPT !.elapsed = @ + RENDER_DELAY]
                      ELSE searchBurst
    /\ UNCHANGED << phase, allBuildingData, filteredBuildingData, currentFilters,
                    selectedItems, comparisonMode, currentView, activeCharts,
                    searchInputValue, deptChecked, drillDownPanel, notification,
                    lastExport, preToggle, vizArea, quickStats, stories, modal >>

-----------------------------------------------------------------------------
(* Start-up *)

plausibleYears(data) ==
    LET years == [i \in 1..Len(data) |-> data[i].yearBuilt]
        plausible(y) == y > 1800 /\ y < 2030
    IN  SelectSeq(years, plausible)

\* initializeFilters: the only FilterState field it sets is the year range
initializeFilters(f, data) ==
    [f EXCEPT !.yearRange = << MathMin(plausibleYears(data)), MathMax(plausibleYears(data)) >>]

\* initializeApp once the dataset has arrived with at least one record
InitializeApp(data) ==
    /\ phase = "loading"
    /\ Len(data) > 0
    /\ phase' = "ready"
    /\ allBuildingData' = data
    /\ filteredBuildingData' = data
    /\ currentFilters' = initializeFilters(currentFilters, data)
    /\ quickStats' = updateQuickStats(data)
    /\ displayVisualization("overview", data)
    /\ UNCHANGED << selectedItems, comparisonMode, searchTimers, searchInputValue,
                    deptChecked, drillDownPanel, notification, lastExport,
                    searchBurst, preToggle, modal >>

LoadFailure_keepsGoing ==
    /\ phase = "loading"
    /\ phase' = "failed"
    /\ displayVisualization("overview", << >>)
    /\ UNCHANGED << allBuildingData, filteredBuildingData, currentFilters,
                    selectedItems, comparisonMode, searchTimers, searchInputValue,
                    deptChecked, drillDownPanel, notification, lastExport,
                    searchBurst, preToggle, quickStats, stories, modal >>

\* initializeApp when fetchDataAndParse returns no record
LoadFailure ==
    /\ phase = "loading"
    /\ phase' = "failed"
    /\ vizArea' = [vizArea EXCEPT !.content = "load-error-with-reload"]
    /\ UNCHANGED << allBuildingData, filteredBuildingData, currentFilters,
                    selectedItems, comparisonMode, currentView, activeCharts,
                    renderTimers, searchTimers, searchInputValue, deptChecked,
                    drillDownPanel, notification, lastExport, searchBurst,
                    preToggle, quickStats, stories, modal >>

-----------------------------------------------------------------------------
(* Chart clicks *)

Without(seq, x) == LET keep(d) == d # x IN SelectSeq(seq, keep)

handleDepartmentClick_addOnly(f, departmentName) ==
    [f EXCEPT !.departments = Append(@, departmentName)]

handleDepartmentClick(f, departmentName) ==
    IF Contains(f.departments, departmentName)
    THEN [f EXCEPT !.departments = Without(@, departmentName)]
    ELSE [f EXCEPT !.departments = Append(@, departmentName)]

handlePropertyTypeClick(f, propertyType) ==
    IF Contains(f.propertyTypes, propertyType)
    THEN [f EXCEPT !.propertyTypes = Without(@, propertyType)]
    ELSE [f EXCEPT !.propertyTypes = Append(@, propertyType)]

handleGreenPowerBinClick(f, binLabel) ==
    CASE binLabel = "0% Usage" -> [f EXCEPT !.energyRange = << 0, 0 >>]
      [] binLabel = "1-25%" -> [f EXCEPT !.energyRange = << 1, 25 >>]
      [] OTHER -> f

\* the branch of handleChartClick that runs the recompute cycle, if any
clickUpdates(canvasId) ==
    \/ idIncludes(canvasId, "deptDistribution")
    \/ idIncludes(canvasId, "propertyTypes")
    \/ (~ idIncludes(canvasId, "energyVsGfa") /\ idIncludes(canvasId, "greenPowerDistribution"))

clickFilters(f, canvasId, label) ==
    IF idIncludes(canvasId, "deptDistribution") THEN handleDepartmentClick(f, label)
    ELSE IF idIncludes(canvasId, "propertyTypes") THEN handlePropertyTypeClick(f, label)
    ELSE IF idIncludes(canvasId, "energyVsGfa") THEN f
    ELSE IF idIncludes(canvasId, "greenPowerDistribution") THEN handleGreenPowerBinClick(f, label)
    ELSE f

\* history kept for a department toggle: set when a department is switched on,
\* completed when the same department is switched off by the next filter change
toggleHistory(f, g, label) ==
    IF ~ Contains(f.departments, label) /\ Contains(g.departments, label)
    THEN [ label |-> label, pre |-> filteredBuildingData, stage |-> "on" ]
    ELSE IF /\ preToggle.stage = "on"
            /\ preToggle.label = label
            /\ Contains(f.departments, label) /\ ~ Contains(g.departments, label)
    THEN [preToggle EXCEPT !.stage = "off"]
    ELSE NoToggle

\* handleChartClick for a click on the element labelled label of a visible chart
ChartClick(canvasId, label) ==
    /\ phase = "ready"
    /\ \E ch \in visibleCharts : ch.canvasId = canvasId /\ Contains(ch.labels, label)
    /\ IF clickUpdates(canvasId)
       THEN /\ updateFilteredData(clickFilters(currentFilters, canvasId, label))
            /\ preToggle' = IF idIncludes(canvasId, "deptDistribution")
                            THEN toggleHistory(currentFilters, currentFilters', label)
                            ELSE NoToggle
       ELSE UNCHANGED << currentFilters, filteredBuildingData, currentView,
                         activeCharts, renderTimers, preToggle, vizArea, quickStats, stories, modal >>
    /\ drillDownPanel' = showDrillDownPanel(label, canvasId, filteredBuildingData',
                                             IF clickUpdates(canvasId)
                                             THEN removePanel(drillDownPanel)
                                             ELSE drillDownPanel)
    /\ notification' = Null
    /\ UNCHANGED << phase, allBuildingData, selectedItems, comparisonMode,
                    searchTimers, searchInputValue, deptChecked, lastExport,
                    searchBurst >>

\* handleChartClick for a point of the scatter plot: the chart has no labels,
\* so the drill-down step finds nothing to show
ScatterPointClick(dataIndex) ==
    /\ phase = "ready"
    /\ \E ch \in visibleCharts :
          ch.canvasId = "chart-energyVsGfa" /\ dataIndex \in 1..Len(ch.data)
    /\ modal' = handleScatterPointClick(dataIndex, filteredBuildingData, modal)
    /\ drillDownPanel' = showDrillDownPanel("", "chart-energyVsGfa", filteredBuildingData,
                                            drillDownPanel)
    /\ notification' = Null
    /\ UNCHANGED << phase, allBuildingData, filteredBuildingData, currentFilters,
                    selectedItems, comparisonMode, currentView, activeCharts,
                    renderTimers, searchTimers, searchInputValue, deptChecked,
                    lastExport, searchBurst, preToggle, vizArea, quickStats, stories >>

-----------------------------------------------------------------------------
(* Filter panel *)

RECURSIVE RemoveFirst(_, _)
RemoveFirst(seq, x) ==
    IF seq = << >> THEN << >>
    ELSE IF Head(seq) = x THEN Tail(seq)
    ELSE << Head(seq) >> \o RemoveFirst(Tail(seq), x)

\* the values that have a checkbox: the distinct non-empty department names
departmentValues(data) ==
    LET named(d) == d # ""
    IN  SelectSeq(Distinct([i \in 1..Len(data) |-> data[i].departmentName]), named)

cityValues(data) ==
    LET named(c) == c # ""
    IN  SelectSeq(Distinct([i \in 1..Len(data) |-> data[i].city]), named)

orNull(v) == IF v = "" THEN Null ELSE v

\* the change handler of a department checkbox, after the user flipped it to checked
checkboxChange_unguarded(f, value, checked) ==
    IF checked
    THEN [f EXCEPT !.departments = Append(@, value)]
    ELSE [f EXCEPT !.departments = RemoveFirst(@, value)]

\* the change handler of the filter check boxes, for a department box

checkboxChange(f, value, checked) ==
    IF checked
    THEN IF ~ Contains(f.departments, value)
         THEN [f EXCEPT !.departments = Append(@, value)]
         ELSE f
    ELSE [f EXCEPT !.departments = RemoveFirst(@, value)]

CheckboxChange(value) ==
    /\ phase = "ready"
    /\ Contains(departmentValues(allBuildingData), value)
    /\ deptChecked' = IF value \in deptChecked THEN deptChecked \ {value}
                      ELSE deptChecked \cup {value}
    /\ updateFilteredData(checkboxChange(currentFilters, value, value \notin deptChecked))
    /\ preToggle' = toggleHistory(currentFilters, currentFilters', value)
    /\ drillDownPanel' = NoPanel
    /\ notification' = Null
    /\ UNCHANGED << phase, allBuildingData, selectedItems, comparisonMode,
                    searchTimers, searchInputValue, lastExport, searchBurst >>

typeValues(data) ==
    LET named(t) == t # ""
    IN  SelectSeq(Distinct([i \in 1..Len(data) |-> data[i].primaryPropertyType]), named)

\* the change handler of the filter check boxes, for a property-type box
typeCheckboxChange(f, value, checked) ==
    IF checked
    THEN IF ~ Contains(f.propertyTypes, value)
         THEN [f EXCEPT !.propertyTypes = Append(@, value)]
         ELSE f
    ELSE [f EXCEPT !.propertyTypes = RemoveFirst(@, value)]

\* a property-type box changes; checked is the state the change leaves it in
TypeCheckboxChange(value, checked) ==
    /\ phase = "ready"
    /\ Contains(typeValues(allBuildingData), value)
    /\ updateFilteredData(typeCheckboxChange(currentFilters, value, checked))
    /\ preToggle' = NoToggle
    /\ drillDownPanel' = NoPanel
    /\ notification' = Null
    /\ UNCHANGED << phase, allBuildingData, selectedItems, comparisonMode,
                    searchTimers, searchInputValue, deptChecked, lastExport,
                    searchBurst >>

\* the change handler of the city select
CitySelect(value) ==
    /\ phase = "ready"
    /\ value = "" \/ Contains(cityValues(allBuildingData), value)
    /\ updateFilteredData([currentFilters EXCEPT !.selectedCity = orNull(value)])
    /\ preToggle' = NoToggle
    /\ drillDownPanel' = NoPanel
    /\ notification' = Null
    /\ UNCHANGED << phase, allBuildingData, selectedItems, comparisonMode,
                    searchTimers, searchInputValue, deptChecked, lastExport,
                    searchBurst >>

\* the change handler of the LEED select
LeedSelect(value) ==
    /\ phase = "ready"
    /\ value \in {"", "certified", "not-certified"}
    /\ updateFilteredData([currentFilters EXCEPT !.leedCertified = orNull(value)])
    /\ preToggle' = NoToggle
    /\ drillDownPanel' = NoPanel
    /\ notification' = Null
    /\ UNCHANGED << phase, allBuildingData, selectedItems, comparisonMode,
                    searchTimers, searchInputValue, deptChecked, lastExport,
                    searchBurst >>

\* the click handler of the apply-filters button
ApplyFiltersFromUI ==
    /\ phase = "ready"
    /\ updateFilteredData(currentFilters)
    /\ preToggle' = NoToggle
    /\ drillDownPanel' = NoPanel
    /\ notification' = Null
    /\ UNCHANGED << phase, allBuildingData, selectedItems, comparisonMode,
                    searchTimers, searchInputValue, deptChecked, lastExport,
                    searchBurst >>

\* the FilterState window.resetAllFilters installs
resetFilters(data) ==
    IF Len(plausibleYears(data)) > 0
    THEN [DefaultFilters EXCEPT !.yearRange =
             << MathMin(plausibleYears(data)), MathMax(plausibleYears(data)) >>]
    ELSE DefaultFilters

\* window.resetAllFilters, from the reset-filters button
ResetAllFilters ==
    /\ phase = "ready"
    /\ searchInputValue' = ""
    /\ deptChecked' = {}
    /\ updateFilteredData(resetFilters(allBuildingData))
    /\ preToggle' = NoToggle
    /\ drillDownPanel' = NoPanel
    /\ notification' = "success"
    /\ UNCHANGED << phase, allBuildingData, selectedItems, comparisonMode,
                    searchTimers, lastExport, searchBurst >>

\* a filter chip exists for every filter updateFilterStatus found set
chipShown(f, filterType) ==
    CASE filterType = "departments" -> Len(f.departments) > 0
      [] filterType = "propertyTypes" -> Len(f.propertyTypes) > 0
      [] filterType = "searchTerm" -> f.searchTerm # ""
      [] filterType = "selectedCity" -> f.selectedCity # Null
      [] filterType = "leedCertified" -> f.leedCertified # Null
      [] OTHER -> FALSE

clearFilter(f, filterType) ==
    CASE filterType = "departments" -> [f EXCEPT !.departments = << >>]
      [] filterType = "propertyTypes" -> [f EXCEPT !.propertyTypes = << >>]
      [] filterType = "searchTerm" -> [f EXCEPT !.searchTerm = ""]
      [] filterType = "selectedCity" -> [f EXCEPT !.selectedCity = Null]
      [] filterType = "leedCertified" -> [f EXCEPT !.leedCertified = Null]
      [] OTHER -> f

\* a click on the remove button of a filter chip
ClearFilter(filterType) ==
    /\ phase = "ready"
    /\ chipShown(currentFilters, filterType)
    /\ searchInputValue' = IF filterType = "searchTerm" THEN "" ELSE searchInputValue
    /\ updateFilteredData(clearFilter(currentFilters, filterType))
    /\ preToggle' = NoToggle
    /\ drillDownPanel' = NoPanel
    /\ notification' = Null
    /\ UNCHANGED << phase, allBuildingData, selectedItems, comparisonMode,
                    searchTimers, deptChecked, lastExport, searchBurst >>

\* a click on a navigation button
NavClick(view) ==
    /\ phase = "ready"
    /\ displayVisualization(view, filteredBuildingData)
    /\ notification' = Null
    /\ UNCHANGED << phase, allBuildingData, filteredBuildingData, currentFilters,
                    selectedItems, comparisonMode, searchTimers, searchInputValue,
                    deptChecked, drillDownPanel, lastExport, searchBurst,
                    preToggle, quickStats, modal >>

\* window.filterToCategory: the FilterState it leaves before the update
filterToCategory(f, label, chartId) ==
    IF idIncludes(chartId, "dept") \/ idIncludes(chartId, "Department")
    THEN [f EXCEPT !.departments = << label >>]
    ELSE IF idIncludes(chartId, "type") \/ idIncludes(chartId, "propertyTypes")
    THEN [f EXCEPT !.propertyTypes = << label >>]
    ELSE IF idIncludes(chartId, "city") \/ idIncludes(chartId, "cityDistribution")
    THEN [f EXCEPT !.selectedCity = label]
    ELSE IF idIncludes(chartId, "buildingAge")
    THEN CASE label = "Pre-1900" -> [f EXCEPT !.yearRange = << 1800, 1899 >>]
           [] label = "1900-1919" -> [f EXCEPT !.yearRange = << 1900, 1919 >>]
           [] label = "1920-1939" -> [f EXCEPT !.yearRange = << 1920, 1939 >>]
           [] label = "1940-1959" -> [f EXCEPT !.yearRange = << 1940, 1959 >>]
           [] label = "1960-1979" -> [f EXCEPT !.yearRange = << 1960, 1979 >>]
           [] label = "1980-1999" -> [f EXCEPT !.yearRange = << 1980, 1999 >>]
           [] label = "2000-Present" -> [f EXCEPT !.yearRange = << 2000, 2025 >>]
           [] label = "Unknown/Pre-1899" -> [f EXCEPT !.yearRange = << 0, 1899 >>]
           [] OTHER -> f
    ELSE IF idIncludes(chartId, "greenPower")
    THEN CASE label = "0% Usage" -> [f EXCEPT !.energyRange = << 0, 0 >>]
           [] OTHER -> f
    ELSE f

\* the notification filterToCategory shows, if any
categoryNotification(label, chartId, shown) ==
    IF \/ idIncludes(chartId, "dept") \/ idIncludes(chartId, "Department")
       \/ idIncludes(chartId, "type") \/ idIncludes(chartId, "propertyTypes")
       \/ idIncludes(chartId, "city") \/ idIncludes(chartId, "cityDistribution")
       \/ idIncludes(chartId, "buildingAge")
    THEN "success"
    ELSE IF idIncludes(chartId, "greenPower") /\ label = "1-25%" THEN "warning"
    ELSE shown

\* the button 'Filter to This Category' of the open drill-down panel
FilterToCategory ==
    /\ phase = "ready"
    /\ drillDownPanel.open
    /\ updateFilteredData(filterToCategory(currentFilters, drillDownPanel.label,
                                           drillDownPanel.chartId))
    /\ preToggle' = NoToggle
    /\ drillDownPanel' = NoPanel
    /\ notification' = categoryNotification(drillDownPanel.label, drillDownPanel.chartId,
                                            notification)
    /\ UNCHANGED << phase, allBuildingData, selectedItems, comparisonMode,
                    searchTimers, searchInputValue, deptChecked, lastExport,
                    searchBurst >>

-----------------------------------------------------------------------------
(* Free-text search *)

\* clearTimeout(searchTimeout): the handle names the timer the handler created
\* last, which is the youngest pending one if it has not run yet
clearTimeout_missing(timers) == timers

clearTimeout(timers) ==
    IF timers = << >> THEN << >> ELSE SubSeq(timers, 1, Len(timers) - 1)

\* the input handler of the search box, the user having changed its text
SearchInput(text) ==
    /\ phase = "ready"
    /\ text # searchInputValue
    /\ Len(clearTimeout(searchTimers)) < MaxSearchTimers
    /\ searchInputValue' = text
    /\ searchTimers' = Append(clearTimeout(searchTimers), SEARCH_DELAY)
    /\ searchBurst' = [ typed |-> TRUE,
                        inputs |-> IF searchTimers = << >> THEN 1 ELSE 2,
                        elapsed |-> 0, updates |-> 0, quiet |-> 0 ]
    /\ notification' = Null
    /\ UNCHANGED << phase, allBuildingData, filteredBuildingData, currentFilters,
                    selectedItems, comparisonMode, currentView, activeCharts,
                    renderTimers, deptChecked, drillDownPanel, lastExport,
                    preToggle, vizArea, quickStats, stories, modal >>

\* the callback of the search handler's setTimeout
SearchTimerFires ==
    /\ searchTimers # << >>
    /\ Head(searchTimers) = 0
    /\ searchTimers' = Tail(searchTimers)
    /\ updateFilteredData([currentFilters EXCEPT !.searchTerm = searchInputValue])
    /\ searchBurst' = [searchBurst EXCEPT !.updates = @ + 1, !.quiet = searchBurst.elapsed]
    /\ preToggle' = NoToggle
    /\ drillDownPanel' = NoPanel
    /\ UNCHANGED << phase, allBuildingData, selectedItems, comparisonMode,
                    searchInputValue, deptChecked, notification, lastExport >>

\* parseInt on the characters of a string: leading white space is skipped,
\* then a sign, then the longest run of digits; NaN when there is none
parseInt(cs) ==
    LET body == trimStart(cs)
        neg == body # << >> /\ Head(body) = "-"
        signed == body # << >> /\ Head(body) \in {"-", "+"}
        rest == IF signed THEN Tail(body) ELSE body
        digits == DigitPrefix(rest)
    IN  IF digits = << >>
        THEN [ nan |-> TRUE, n |-> 0 ]
        ELSE [ nan |-> FALSE, n |-> IF neg THEN 0 - DigitsValue(digits) ELSE DigitsValue(digits) ]

\* num || fallback: NaN and 0 are falsy
orElse(num, fallback) == IF num.nan \/ num.n = 0 THEN fallback ELSE num.n

yearRangeOf(minValue, maxValue) ==
    << orElse(parseInt(CharsOf(minValue)), 1800), orElse(parseInt(CharsOf(maxValue)), 2025) >>

energyRangeOf(minValue, maxValue) ==
    << orElse(parseFloat(CharsOf(minValue)), 0), orElse(parseFloat(CharsOf(maxValue)), Infinity) >>

gfaRangeOf(minValue, maxValue) ==
    << orElse(parseFloat(CharsOf(minValue)), 0), orElse(parseFloat(CharsOf(maxValue)), Infinity) >>

\* the change event of #year-min or #year-max; the two arguments are the texts
\* of the inputs at that moment
updateYearRange(minValue, maxValue) ==
    /\ phase = "ready"
    /\ updateFilteredData([currentFilters EXCEPT !.yearRange = yearRangeOf(minValue, maxValue)])
    /\ preToggle' = NoToggle
    /\ drillDownPanel' = NoPanel
    /\ notification' = Null
    /\ UNCHANGED << phase, allBuildingData, selectedItems, comparisonMode,
                    searchTimers, searchInputValue, deptChecked, lastExport,
                    searchBurst >>

updateEnergyRange(minValue, maxValue) ==
    /\ phase = "ready"
    /\ updateFilteredData([currentFilters EXCEPT !.energyRange = energyRangeOf(minValue, maxValue)])
    /\ preToggle' = NoToggle
    /\ drillDownPanel' = NoPanel
    /\ notification' = Null
    /\ UNCHANGED << phase, allBuildingData, selectedItems, comparisonMode,
                    searchTimers, searchInputValue, deptChecked, lastExport,
                    searchBurst >>

updateGFARange(minValue, maxValue) ==
    /\ phase = "ready"
    /\ updateFilteredData([currentFilters EXCEPT !.gfaRange = gfaRangeOf(minValue, maxValue)])
    /\ preToggle' = NoToggle
    /\ drillDownPanel' = NoPanel
    /\ notification' = Null
    /\ UNCHANGED << phase, allBuildingData, selectedItems, comparisonMode,
                    searchTimers, searchInputValue, deptChecked, lastExport,
                    searchBurst >>

-----------------------------------------------------------------------------
(* Comparison list *)

\* Array.prototype.findIndex by property id; 0 stands for -1 (not found)
findIndex(items, propertyId) ==
    LET hits == {i \in 1..Len(items) : items[i].propertyId = propertyId}
    IN  IF hits = {} THEN 0 ELSE CHOOSE i \in hits : \A j \in hits : i <= j

addToComparison_unchecked(items, data, propertyId) ==
    IF findIndex(data, propertyId) = 0 THEN items
    ELSE Append(items, data[findIndex(data, propertyId)])

\* the comparison list window.addToComparison leaves
addToComparison(items, data, propertyId) ==
    IF findIndex(data, propertyId) = 0 THEN items
    ELSE IF findIndex(items, propertyId) = 0
         THEN Append(items, data[findIndex(data, propertyId)])
         ELSE items

\* the comparison list window.removeFromComparison leaves
removeFromComparison(items, propertyId) ==
    IF findIndex(items, propertyId) = 0 THEN items
    ELSE SubSeq(items, 1, findIndex(items, propertyId) - 1)
           \o SubSeq(items, findIndex(items, propertyId) + 1, Len(items))

\* the identifiers the comparison handlers are called with: those of the
\* dataset and one that names no record
propertyIds == {allBuildingData[i].propertyId : i \in 1..Len(allBuildingData)} \cup {"P9"}

AddToComparison(propertyId) ==
    /\ phase = "ready"
    /\ selectedItems' = addToComparison(selectedItems, allBuildingData, propertyId)
    /\ notification' = IF findIndex(allBuildingData, propertyId) = 0 THEN Null
                       ELSE IF findIndex(selectedItems, propertyId) = 0 THEN "success"
                       ELSE "warning"
    /\ UNCHANGED << phase, allBuildingData, filteredBuildingData, currentFilters,
                    comparisonMode, currentView, activeCharts, renderTimers,
                    searchTimers, searchInputValue, deptChecked, drillDownPanel,
                    lastExport, searchBurst, preToggle, vizArea, quickStats, stories, modal >>

RemoveFromComparison(propertyId) ==
    /\ phase = "ready"
    /\ selectedItems' = removeFromComparison(selectedItems, propertyId)
    /\ notification' = IF findIndex(selectedItems, propertyId) = 0 THEN Null ELSE "info"
    /\ UNCHANGED << phase, allBuildingData, filteredBuildingData, currentFilters,
                    comparisonMode, currentView, activeCharts, renderTimers,
                    searchTimers, searchInputValue, deptChecked, drillDownPanel,
                    lastExport, searchBurst, preToggle, vizArea, quickStats, stories, modal >>

ClearAllComparison_rerender ==
    /\ phase = "ready"
    /\ selectedItems' = << >>
    /\ notification' = "info"
    /\ updateFilteredData(currentFilters)
    /\ UNCHANGED << phase, allBuildingData, comparisonMode, searchTimers,
                    searchInputValue, deptChecked, drillDownPanel, lastExport,
                    searchBurst, preToggle >>

ClearAllComparison ==
    /\ phase = "ready"
    /\ selectedItems' = << >>
    /\ notification' = "info"
    /\ UNCHANGED << phase, allBuildingData, filteredBuildingData, currentFilters,
                    comparisonMode, currentView, activeCharts, renderTimers,
                    searchTimers, searchInputValue, deptChecked, drillDownPanel,
                    lastExport, searchBurst, preToggle, vizArea, quickStats, stories, modal >>

\* the click handler of the Reset All button in the header:
\* resetAllFilters(), clearAllComparison(), comparison mode off
UniversalReset ==
    /\ phase = "ready"
    /\ searchInputValue' = ""
    /\ deptChecked' = {}
    /\ updateFilteredData(resetFilters(allBuildingData))
    /\ preToggle' = NoToggle
    /\ drillDownPanel' = NoPanel
    /\ selectedItems' = << >>
    /\ comparisonMode' = FALSE
    /\ notification' = "info"
    /\ UNCHANGED << phase, allBuildingData, searchTimers, lastExport, searchBurst >>

-----------------------------------------------------------------------------
(* JSON text *)

\* JSON.stringify of a number: a non-finite number is written as null
stringifyNumber(n) ==
    IF n = Infinity \/ n = NegInfinity THEN << "n", "u", "l", "l" >>
    ELSE IF n < 0 THEN << "-" >> \o DigitsOf(0 - n)
    ELSE DigitsOf(n)

\* JSON.stringify of a string: quoted, with quote and backslash escaped
RECURSIVE escapeChars(_)
escapeChars(cs) ==
    IF cs = << >> THEN << >>
    ELSE (IF Head(cs) \in {"\"", "\\"} THEN << "\\", Head(cs) >> ELSE << Head(cs) >>)
         \o escapeChars(Tail(cs))

stringifyString(s) == << "\"" >> \o escapeChars(CharsOf(s)) \o << "\"" >>

\* JSON.stringify(data, null, 2): for each record the text of each member
JSONstringify(data) ==
    [i \in 1..Len(data) |->
        [k \in NumericFields \cup TextFields |->
            IF k \in NumericFields THEN stringifyNumber(data[i][k])
            ELSE stringifyString(data[i][k])]]

RECURSIVE unescapeChars(_)
unescapeChars(cs) ==
    IF cs = << >> THEN << >>
    ELSE IF Head(cs) = "\\" /\ Len(cs) > 1
    THEN << cs[2] >> \o unescapeChars(Tail(Tail(cs)))
    ELSE << Head(cs) >> \o unescapeChars(Tail(cs))

\* JSON.parse of the text of one member: null, a string (its characters) or a number
parseMember(text) ==
    IF text = << "n", "u", "l", "l" >>
    THEN [ t |-> "null", n |-> 0, cs |-> << >> ]
    ELSE IF Head(text) = "\""
    THEN [ t |-> "string", n |-> 0, cs |-> unescapeChars(SubSeq(text, 2, Len(text) - 1)) ]
    ELSE IF Head(text) = "-"
    THEN [ t |-> "number", n |-> 0 - DigitsValue(Tail(text)), cs |-> << >> ]
    ELSE [ t |-> "number", n |-> DigitsValue(text), cs |-> << >> ]

JSONparse(content) ==
    [i \in 1..Len(content) |->
        [k \in NumericFields \cup TextFields |-> parseMember(content[i][k])]]

\* a re-parsed record equals the record it was written from, member for member (===)
sameRecord(parsed, item) ==
    \A k \in NumericFields \cup TextFields :
        IF k \in NumericFields
        THEN parsed[k].t = "number" /\ parsed[k].n = item[k]
        ELSE parsed[k].t = "string" /\ parsed[k].cs = CharsOf(item[k])

-----------------------------------------------------------------------------
(* Export *)

\* the CSV/JSON serialisation of exportFilteredData and of handleExport's
\* full-dataset branch: Object.keys(data[0]) throws on an empty array
exportRecords(path, data, format) ==
    IF format = "csv" /\ Len(data) = 0
    THEN [ path |-> path, records |-> 0, download |-> FALSE, threw |-> TRUE,
           notified |-> Null, format |-> format, json |-> << >> ]
    ELSE [ path |-> path, records |-> Len(data), download |-> TRUE, threw |-> FALSE,
           notified |-> Null, format |-> format,
           json |-> IF format = "json" THEN JSONstringify(data) ELSE << >> ]

\* the click handler of the confirm-export button
HandleExport(format, scope) ==
    /\ phase = "ready"
    /\ format \in {"csv", "json"}
    /\ lastExport' = IF scope = "filtered"
                     THEN exportRecords("filtered", filteredBuildingData, format)
                     ELSE exportRecords("all", allBuildingData, format)
    /\ notification' = Null
    /\ UNCHANGED << phase, allBuildingData, filteredBuildingData, currentFilters,
                    selectedItems, comparisonMode, currentView, activeCharts,
                    renderTimers, searchTimers, searchInputValue, deptChecked,
                    drillDownPanel, searchBurst, preToggle, vizArea, quickStats, stories, modal >>

\* the rows window.exportChartData writes
chartExportRows(type, filtered) ==
    CASE type = "departments" -> Distinct(deptLabels(filtered))
      [] type = "propertyTypes" -> Distinct(typeLabels(filtered))
      [] OTHER -> filtered

\* window.exportChartData, from the Export Data button of the department chart
ExportChartData(type) ==
    /\ phase = "ready"
    /\ \E ch \in visibleCharts : ch.canvasId = "chart-deptDistribution"
    /\ lastExport' = [ path |-> "chart", records |-> Len(chartExportRows(type, filteredBuildingData)),
                       download |-> TRUE, threw |-> FALSE, notified |-> "success",
                       format |-> "csv", json |-> << >> ]
    /\ notification' = "success"
    /\ UNCHANGED << phase, allBuildingData, filteredBuildingData, currentFilters,
                    selectedItems, comparisonMode, currentView, activeCharts,
                    renderTimers, searchTimers, searchInputValue, deptChecked,
                    drillDownPanel, searchBurst, preToggle, vizArea, quickStats, stories, modal >>

-----------------------------------------------------------------------------
(* Specifications *)

NavViews == {"overview", "geographicFootprint"}
SearchTexts == {"", "dav", "zz"}

Load == LoadFailure \/ \E data \in Datasets : InitializeApp(data)

AnyChartClick ==
    \E ch \in visibleCharts : \E i \in 1..Len(ch.labels) : ChartClick(ch.canvasId, ch.labels[i])

DepartmentBarClick ==
    \E ch \in visibleCharts : \E i \in 1..Len(ch.labels) :
        ch.canvasId = "chart-deptDistribution" /\ ChartClick(ch.canvasId, ch.labels[i])

AnyCheckboxChange ==
    \E i \in 1..Len(departmentValues(allBuildingData)) :
        CheckboxChange(departmentValues(allBuildingData)[i])

AnyCitySelect ==
    \/ CitySelect("")
    \/ \E i \in 1..Len(cityValues(allBuildingData)) : CitySelect(cityValues(allBuildingData)[i])

AnyClearFilter ==
    \E filterType \in {"departments", "propertyTypes", "searchTerm", "selectedCity", "leedCertified"} :
        ClearFilter(filterType)

AnyNavClick == \E view \in NavViews : NavClick(view)

\* filters, chart clicks and navigation
Next ==
    \/ Load
    \/ AnyChartClick
    \/ AnyCheckboxChange
    \/ AnyCitySelect
    \/ ResetAllFilters
    \/ AnyClearFilter
    \/ AnyNavClick
    \/ RenderTimerFires
    \/ Tick

Spec == Init /\ [][Next]_vars


\* the comparison list next to department-bar clicks and the header's Reset All
NextCompare ==
    \/ Load
    \/ \E propertyId \in propertyIds : AddToComparison(propertyId)
    \/ \E propertyId \in propertyIds : RemoveFromComparison(propertyId)
    \/ ClearAllComparison
    \/ UniversalReset
    \/ DepartmentBarClick
    \/ RenderTimerFires
    \/ Tick

SpecCompare == Init /\ [][NextCompare]_vars

\* the search box next to the handlers that also write the search term
NextSearch ==
    \/ Load
    \/ \E text \in SearchTexts : SearchInput(text)
    \/ SearchTimerFires
    \/ ClearFilter("searchTerm")
    \/ ResetAllFilters
    \/ RenderTimerFires
    \/ Tick

SpecSearch == Init /\ [][NextSearch]_vars

\* the export handlers next to filters that can empty the active set
NextExport ==
    \/ Load
    \/ AnyCheckboxChange
    \/ \E value \in {"", "certified", "not-certified"} : LeedSelect(value)
    \/ \E format \in {"csv", "json"}, scope \in {"filtered", "all"} : HandleExport(format, scope)
    \/ ExportChartData("departments")
    \/ RenderTimerFires
    \/ Tick

SpecExport == Init /\ [][NextExport]_vars

\* the filter engine on its own: every dataset under every FilterState of a
\* bounded family, applied by the apply-filters button
FilterStates ==
    [ departments : { << >>, << "DGS" >>, << "DOT", "DGS" >>, << "Unknown Department" >> },
      propertyTypes : { << >>, << "Office" >> },
      yearRange : { << 1900, 2025 >>, << 1950, 2005 >>, << 0, 1899 >>, << Infinity, NegInfinity >> },
      energyRange : { << 0, Infinity >>, << 0, 0 >>, << 1, 25 >> },
      gfaRange : { << 0, Infinity >>, << 100, 1000 >> },
      leedCertified : { Null, "certified", "not-certified" },
      searchTerm : { "", "DAV", "zz" },
      selectedCity : { Null, "Chico" } ]

InitFilter ==
    /\ phase = "ready"
    /\ allBuildingData \in Datasets
    /\ filteredBuildingData = allBuildingData
    /\ currentFilters \in FilterStates
    /\ selectedItems = << >>
    /\ comparisonMode = FALSE
    /\ currentView = "overview"
    /\ activeCharts = << >>
    /\ renderTimers = << >>
    /\ searchTimers = << >>
    /\ searchInputValue = currentFilters.searchTerm
    /\ deptChecked = {}
    /\ drillDownPanel = NoPanel
    /\ notification = Null
    /\ lastExport = NoExport
    /\ searchBurst = NoBurst
    /\ preToggle = NoToggle
    /\ vizArea = InitialArea
    /\ quickStats = InitialStats
    /\ stories = InitialStories
    /\ modal = NoModal

NextFilter ==
    \/ ApplyFiltersFromUI
    \/ RenderTimerFires
    \/ Tick

SpecFilter == InitFilter /\ [][NextFilter]_vars

\* initializeApp on what the dataset source delivers
FetchAndInitialize ==
    \E payload \in RawPayloads :
        LET data == fetchDataAndParse(payload)
        IN  IF Len(data) = 0 THEN LoadFailure ELSE InitializeApp(data)

\* the dataset source and the export of what it delivered
NextSource ==
    \/ FetchAndInitialize
    \/ \E format \in {"csv", "json"}, scope \in {"filtered", "all"} : HandleExport(format, scope)
    \/ RenderTimerFires
    \/ Tick

SpecSource == Init /\ [][NextSource]_vars

ChartViews == {"energyConsumption", "greenPower", "waterUsage", "buildingAge", "efficiencyAnalysis"}

LoadMetered == \E data \in MeteredDatasets : InitializeApp(data)

ChartNavClick == \E view \in ChartViews : NavClick(view)

\* a click on a bin of the building-age chart or of the green-power chart
BinClick ==
    \E ch \in visibleCharts : \E i \in 1..Len(ch.labels) :
        /\ ch.canvasId \in {"chart-buildingAgeDistribution", "chart-greenPowerDistribution"}
        /\ ChartClick(ch.canvasId, ch.labels[i])

\* the derived views over the metered datasets
NextCharts ==
    \/ LoadMetered
    \/ ChartNavClick
    \/ BinClick
    \/ RenderTimerFires
    \/ Tick

SpecCharts == Init /\ [][NextCharts]_vars

\* a click on a bar of the department chart or a slice of the property-type chart
ToggleClick ==
    \E ch \in visibleCharts : \E i \in 1..Len(ch.labels) :
        /\ ch.canvasId \in {"chart-deptDistribution", "chart-propertyTypes"}
        /\ ChartClick(ch.canvasId, ch.labels[i])

\* the toggling chart clicks next to a comparison list that is being filled
NextToggle ==
    \/ Load
    \/ ToggleClick
    \/ \E propertyId \in propertyIds : AddToComparison(propertyId)
    \/ RenderTimerFires
    \/ Tick

SpecToggle == Init /\ [][NextToggle]_vars

\* render callbacks that may throw, next to navigation and the comparison list
NextRender ==
    \/ Load
    \/ AnyNavClick
    \/ \E propertyId \in propertyIds : AddToComparison(propertyId)
    \/ RenderTimerFires
    \/ RenderTimerThrows
    \/ Tick

SpecRender == Init /\ [][NextRender]_vars

\* the texts a user leaves in a range input
RangeTexts == { "abc", "0", "500" }

YearRangeChange == \E a \in RangeTexts, b \in RangeTexts : updateYearRange(a, b)

EnergyRangeChange == \E a \in RangeTexts, b \in RangeTexts : updateEnergyRange(a, b)

GFARangeChange == \E a \in RangeTexts, b \in RangeTexts : updateGFARange(a, b)

\* the range inputs of the filter panel
NextRanges ==
    \/ Load
    \/ YearRangeChange
    \/ EnergyRangeChange
    \/ GFARangeChange
    \/ RenderTimerFires
    \/ Tick

SpecRanges == Init /\ [][NextRanges]_vars

\* start-up in a deployment whose API_KEY is filled in
InitStory ==
    /\ phase = "loading"
    /\ allBuildingData = << >>
    /\ filteredBuildingData = << >>
    /\ currentFilters = DefaultFilters
    /\ selectedItems = << >>
    /\ comparisonMode = FALSE
    /\ currentView = "overview"
    /\ activeCharts = << >>
    /\ renderTimers = << >>
    /\ searchTimers = << >>
    /\ searchInputValue = ""
    /\ deptChecked = {}
    /\ drillDownPanel = NoPanel
    /\ notification = Null
    /\ lastExport = NoExport
    /\ searchBurst = NoBurst
    /\ preToggle = NoToggle
    /\ vizArea = InitialArea
    /\ quickStats = InitialStats
    /\ stories = [InitialStories EXCEPT !.apiKey = TRUE]
    /\ modal = NoModal

AnyStoryResolves == \E request \in stories.requests : StoryResolves(request)

AnyStoryFails == \E request \in stories.requests : StoryFails(request)

LoadMixed == InitializeApp(DataMixed)

GeographicNavClick == NavClick("geographicFootprint")

\* the narrative captions: renders, and the responses in any order
NextStory ==
    \/ LoadMixed
    \/ GeographicNavClick
    \/ RenderTimerFires
    \/ AnyStoryResolves
    \/ AnyStoryFails
    \/ Tick

SpecStory == InitStory /\ [][NextStory]_vars

\* chart clicks and navigation
NextPanel ==
    \/ Load
    \/ AnyChartClick
    \/ AnyNavClick
    \/ RenderTimerFires
    \/ Tick

SpecPanel == Init /\ [][NextPanel]_vars

\* the department boxes, the city filter, the reset and navigation
NextScreen ==
    \/ Load
    \/ AnyCheckboxChange
    \/ AnyCitySelect
    \/ ResetAllFilters
    \/ AnyNavClick
    \/ RenderTimerFires
    \/ Tick

SpecScreen == Init /\ [][NextScreen]_vars

\* every record is inside the window of the scatter plot
DataPlotted ==
    << Metered("Q1", "Quay", 2000, 5000, 0, 0, 0, 0, 0),
       Metered("Q2", "Quad", 3000, 7000, 0, 0, 0, 0, 0) >>

\* the first record is outside the window of the scatter plot
DataSparse ==
    << Metered("R1", "Ramp", 50, 5000, 0, 0, 0, 0, 0),
       Metered("R2", "Rink", 2000, 5000, 0, 0, 0, 0, 0),
       Metered("R3", "Roof", 3000, 7000, 0, 0, 0, 0, 0) >>

LoadPlotted == \E data \in {DataPlotted, DataSparse} : InitializeApp(data)

EnergyNavClick == NavClick("energyConsumption")

AnyScatterPointClick ==
    \E ch \in visibleCharts : \E dataIndex \in 1..Len(ch.data) :
        ch.canvasId = "chart-energyVsGfa" /\ ScatterPointClick(dataIndex)

\* the scatter plot and the building-details modal
NextScatter ==
    \/ LoadPlotted
    \/ EnergyNavClick
    \/ AnyCitySelect
    \/ AnyScatterPointClick
    \/ RenderTimerFires
    \/ Tick

SpecScatter == Init /\ [][NextScatter]_vars

\* the bins of the derived views and the button of their drill-down panel
NextCategory ==
    \/ LoadMetered
    \/ ChartNavClick
    \/ BinClick
    \/ FilterToCategory
    \/ RenderTimerFires
    \/ Tick

SpecCategory == Init /\ [][NextCategory]_vars

AnyTypeCheckboxChange ==
    \E i \in 1..Len(typeValues(allBuildingData)) : \E checked \in BOOLEAN :
        TypeCheckboxChange(typeValues(allBuildingData)[i], checked)

\* every handler that writes the two selection lists
NextSelections ==
    \/ LoadMixed
    \/ ToggleClick
    \/ AnyCheckboxChange
    \/ AnyTypeCheckboxChange
    \/ FilterToCategory
    \/ AnyClearFilter
    \/ ResetAllFilters
    \/ RenderTimerFires
    \/ Tick

SpecSelections == Init /\ [][NextSelections]_vars

\* the energy minimum is set to 500, or cleared
EnergyFloorChange == \E minValue \in {"0", "500"} : updateEnergyRange(minValue, "abc")

\* the derived views over the metered datasets and their subsets from 500 kBtu
NextViews ==
    \/ LoadMetered
    \/ ChartNavClick
    \/ EnergyFloorChange
    \/ RenderTimerFires
    \/ Tick

SpecViews == Init /\ [][NextViews]_vars

-----------------------------------------------------------------------------
(* Properties *)

\* C1: once start-up has finished, between any two handlers the active set is
\* applyFilters of the canonical records under the current FilterState.
C1_ActiveSetFollowsFilters ==
    phase = "ready" => filteredBuildingData = applyFilters(allBuildingData, currentFilters)

\* C2: every run of the filter engine returns a subsequence of the canonical
\* records (only input records, none more often than in the input, in input
\* order) and leaves the input array as it was.
C2_FilterReturnsSubsequence ==
    [][ApplyFiltersFromUI =>
          /\ IsSubseq(filteredBuildingData', allBuildingData)
          /\ allBuildingData' = allBuildingData]_vars

\* C2 witness: the engine has run, kept at least two records and dropped one.
C2_Witness ==
    /\ renderTimers # << >>
    /\ Len(filteredBuildingData) >= 2
    /\ Len(filteredBuildingData) < Len(allBuildingData)

\* C3: under the FilterState installed at start-up or by reset-all-filters the
\* filter engine returns every canonical record.
C3_InstalledFiltersKeepAll ==
    (/\ phase = "ready"
     /\ currentFilters \in { initializeFilters(DefaultFilters, allBuildingData),
                             resetFilters(allBuildingData) })
    => applyFilters(allBuildingData, currentFilters) = allBuildingData

\* C4: a department switched on and then off again (bar clicks or checkbox)
\* leaves the active set as it was before it was switched on.
C4_ToggleRoundTrip ==
    preToggle.stage = "off" => filteredBuildingData = preToggle.pre

\* C5: a click on the bar labelled C of the city chart makes C the selected
\* city and leaves only records of city C in the active set.
C5_CityClickSelectsCity ==
    [][\A C \in {"Davis", "Chico", "Unknown City"} :
          ChartClick("chart-cityDistribution", C) =>
              /\ currentFilters'.selectedCity = C
              /\ \A i \in 1..Len(filteredBuildingData') : filteredBuildingData'[i].city = C]_vars

\* C6: the comparison list never holds two entries with the same propertyId,
\* and adding an identifier that is already listed changes nothing but the
\* notification, which is a warning.
C6_ComparisonUniqueById ==
    [][/\ \A i, j \in 1..Len(selectedItems') :
             i # j => selectedItems'[i].propertyId # selectedItems'[j].propertyId
       /\ \A propertyId \in propertyIds :
             (AddToComparison(propertyId) /\ findIndex(selectedItems, propertyId) # 0)
                 => (selectedItems' = selectedItems /\ notification' = "warning")]_vars

\* C6 witness: an identifier was added a second time and is listed once.
C6_Witness ==
    /\ notification = "warning"
    /\ Len(selectedItems) = 2

C8_ChartsOfOneCycle ==
    \A i, j \in 1..Len(activeCharts) : activeCharts[i].cycle = activeCharts[j].cycle

\* C9: the search is debounced.  While a search timer is pending no search
\* recomputation has run since the last input event; once none is pending,
\* exactly one has run, SEARCH_DELAY after the last input event, and the search
\* term is the text of the input.
C9_SearchDebounced ==
    /\ searchTimers # << >> => searchBurst.updates = 0
    /\ (searchTimers = << >> /\ searchBurst.typed) =>
          (searchBurst.updates = 1 /\ searchBurst.quiet = SEARCH_DELAY)
    /\ searchTimers = << >> => currentFilters.searchTerm = searchInputValue

\* C9 witness: a burst of at least two input events has been followed by its
\* one recomputation, which filtered by the final text.
C9_Witness ==
    /\ searchBurst.inputs = 2
    /\ searchBurst.updates = 1
    /\ searchTimers = << >>
    /\ currentFilters.searchTerm = "zz"
    /\ filteredBuildingData = << >>

\* C10: an export of no record produces no download and shows a warning.
C10_EmptyExportWarns ==
    (lastExport.path # Null /\ lastExport.records = 0) =>
        (~ lastExport.download /\ ~ lastExport.threw /\ lastExport.notified = "warning")

\* C11: re-parsing the payload of a JSON export of the active set gives as
\* many records as the active set has, each equal to its original member for
\* member (numbers by value, strings by their characters).
C11_JsonRoundTrip ==
    [][HandleExport("json", "filtered") =>
          LET parsed == JSONparse(lastExport'.json)
          IN  /\ Len(parsed) = Len(filteredBuildingData)
              /\ \A i \in 1..Len(parsed) : sameRecord(parsed[i], filteredBuildingData[i])]_vars

\* C12: every numeric field of every normalised record is a finite number.
C12_NumericFieldsFinite ==
    \A i \in 1..Len(allBuildingData) : \A k \in NumericFields :
        allBuildingData[i][k] # Infinity /\ allBuildingData[i][k] # NegInfinity

\* the charts on screen are those of the last render callback; with no render
\* pending they were computed from the active set
shownChart(canvasId) ==
    IF renderTimers = << >> /\ \E ch \in visibleCharts : ch.canvasId = canvasId
    THEN { CHOOSE ch \in visibleCharts : ch.canvasId = canvasId }
    ELSE {}

\* the bars of ch are a histogram of values with bins of width ceil(max / targetBins)
IsHistogramOf(ch, values, targetBins) ==
    LET binSize == ceilDiv(MathMax(values), targetBins)
        lower(v) == (v \div binSize) * binSize
        bars(lo) == {j \in 1..Len(ch.labels) : binStartOfLabel(ch.labels[j]) = lo}
    IN  /\ Sum(ch.data) = Len(values)
        /\ \A i \in 1..Len(values) :
              /\ Cardinality(bars(lower(values[i]))) = 1
              /\ \A j \in bars(lower(values[i])) :
                    ch.data[j] = Cardinality({k \in 1..Len(values) : lower(values[k]) = lower(values[i])})

\* C13: the bin counts of the water-usage histogram (10 target bins) and of
\* the energy-intensity histogram (15) add up to the number of qualifying
\* values, and each qualifying value is counted in exactly one bin, the one
\* whose lower bound is floor(value / binSize) * binSize.
C13_HistogramCountsQualifying ==
    /\ \A ch \in shownChart("chart-waterUsageDistribution") :
          LET values == SelectSeq([i \in 1..Len(filteredBuildingData) |->
                                      filteredBuildingData[i].waterUseKgal], LAMBDA v : v > 0)
          IN  values # << >> => IsHistogramOf(ch, values, 10)
    /\ \A ch \in shownChart("chart-energyIntensityDistribution") :
          LET qualifying == SelectSeq(filteredBuildingData,
                                      LAMBDA d : /\ d.siteEnergyUsedPerSqrFt > 0
                                                 /\ d.siteEnergyUsedPerSqrFt < 1000
                                                 /\ d.propertyGFA > 100)
              values == [i \in 1..Len(qualifying) |-> qualifying[i].siteEnergyUsedPerSqrFt]
          IN  values # << >> => IsHistogramOf(ch, values, 15)

\* the water-usage histogram is shown with several bins, one of them holding
\* more than one value
C13_Witness ==
    /\ currentView = "waterUsage"
    /\ \E ch \in shownChart("chart-waterUsageDistribution") :
          Len(ch.labels) >= 3 /\ \E j \in 1..Len(ch.data) : ch.data[j] >= 2
    /\ waterUsePositive(filteredBuildingData) # << >>

\* the N first of the qualifying records in the order "larger key first"
\* (descending) or "smaller key first", equal keys in input order
Ranked(qualifying, key, n, descending) ==
    LET before(a, b) ==
            \/ (descending /\ qualifying[a][key] > qualifying[b][key])
            \/ (~ descending /\ qualifying[a][key] < qualifying[b][key])
            \/ (qualifying[a][key] = qualifying[b][key] /\ a < b)
        at(i) == CHOOSE b \in 1..Len(qualifying) :
                    Cardinality({a \in 1..Len(qualifying) : before(a, b)}) = i - 1
    IN  [i \in 1..(IF Len(qualifying) < n THEN Len(qualifying) ELSE n) |-> qualifying[at(i)]]

\* C14: every ranking shows the N records with the largest (smallest) key in
\* sorted order, records with equal keys in their input order: the top 10
\* energy and water consumers, and the efficiency leaders (10 smallest) and
\* laggards (10 largest), electrical best (15 smallest) and worst (15 largest).
C14_RankingsSortedAndStable ==
    LET data == filteredBuildingData
        energy == SelectSeq(data, LAMBDA d : d.siteEnergyUseKbtu > 0)
        water == SelectSeq(data, LAMBDA d : d.waterUseKgal > 0)
        rated == SelectSeq(data, LAMBDA d : d.siteEnergyUsedPerSqrFt > 0 /\ d.propertyGFA > 1000)
        electrical == SelectSeq(data, LAMBDA d : /\ d.elecUsedPerSqrFt > 0
                                                 /\ d.elecUsedPerSqrFt < 200
                                                 /\ d.propertyGFA > 500)
    IN  /\ \A ch \in shownChart("chart-topEnergyConsumers") :
              ch.items = Ranked(energy, "siteEnergyUseKbtu", 10, TRUE)
        /\ \A ch \in shownChart("chart-topWaterConsumers") :
              ch.items = Ranked(water, "waterUseKgal", 10, TRUE)
        /\ \A ch \in shownChart("chart-efficiencyPerformers") :
              ch.items = Ranked(rated, "siteEnergyUsedPerSqrFt", 10, FALSE)
                         \o Ranked(rated, "siteEnergyUsedPerSqrFt", 10, TRUE)
        /\ \A ch \in shownChart("chart-electricalEfficiency") :
              ch.items = Ranked(electrical, "elecUsedPerSqrFt", 15, FALSE)
                         \o Ranked(electrical, "elecUsedPerSqrFt", 15, TRUE)

\* C15: the green-power chart counts each record that uses electricity in
\* exactly one bin, the one of its percentage, and no other record.
C15_GreenPowerBins ==
    \A ch \in shownChart("chart-greenPowerDistribution") :
        LET users == {i \in 1..Len(filteredBuildingData) :
                        filteredBuildingData[i].totalElectricityUseKWh > 0}
            p(i) == filteredBuildingData[i].percentGreenPower
            inBin(i, label) ==
                CASE label = "0% Usage" -> p(i) = 0
                  [] label = "1-25%" -> 0 < p(i) /\ p(i) <= 25
                  [] label = "26-50%" -> 25 < p(i) /\ p(i) <= 50
                  [] label = "51-75%" -> 50 < p(i) /\ p(i) <= 75
                  [] label = "76-100%" -> 75 < p(i) /\ p(i) <= 100
                  [] OTHER -> p(i) < 0 \/ p(i) > 100
        IN  /\ ch.labels = << "0% Usage", "1-25%", "26-50%", "51-75%", "76-100%",
                              "Not Reported/Applicable" >>
            /\ \A j \in 1..Len(ch.labels) :
                  ch.data[j] = Cardinality({i \in users : inBin(i, ch.labels[j])})
            /\ Sum(ch.data) = Cardinality(users)

\* the shares 0, 10, 30, 60, 90 have been binned: one record in each of the
\* first five bins
C15_Witness ==
    /\ allBuildingData = DataShares
    /\ \E ch \in shownChart("chart-greenPowerDistribution") : ch.data = << 1, 1, 1, 1, 1, 0 >>

\* the predicates of a FilterState, each true when it is inactive
InSelection(selection, value) == selection = << >> \/ \E i \in 1..Len(selection) : selection[i] = value

InRange(range, value) == range[1] <= value /\ value <= range[2]

LeedMatches(choice, item) ==
    LET status == toLowerCase(trim(CharsOf(item.leedCertified)))
        certified == status \notin { CharsOf(""), CharsOf("no"), CharsOf("not applicable") }
    IN  CASE choice = "certified" -> certified
          [] choice = "not-certified" -> ~ certified
          [] OTHER -> TRUE

SearchMatches(term, item) ==
    \/ term = ""
    \/ includes(toLowerCase(CharsOf(item.propertyName) \o << " " >> \o CharsOf(item.departmentName)
                             \o << " " >> \o CharsOf(item.address1) \o << " " >> \o CharsOf(item.city)),
                 toLowerCase(CharsOf(term)))

CityMatches(selectedCity, item) == selectedCity = Null \/ item.city = selectedCity

\* C16: applyFilters keeps a record if and only if it satisfies every
\* predicate at once: department and property type in the selection or the
\* selection empty, year, energy and floor area within their ranges (bounds
\* included), LEED choice, search term and selected city.
C16_KeepsExactlyTheMatches ==
    [][ApplyFiltersFromUI =>
          LET f == currentFilters
              keeps(d) == /\ InSelection(f.departments, d.departmentName)
                          /\ InSelection(f.propertyTypes, d.primaryPropertyType)
                          /\ InRange(f.yearRange, d.yearBuilt)
                          /\ InRange(f.energyRange, d.siteEnergyUseKbtu)
                          /\ InRange(f.gfaRange, d.propertyGFA)
                          /\ LeedMatches(f.leedCertified, d)
                          /\ SearchMatches(f.searchTerm, d)
                          /\ CityMatches(f.selectedCity, d)
          IN  filteredBuildingData' = SelectSeq(allBuildingData, keeps)]_vars

\* the engine has run under a year range whose two bounds are the years of
\* two records, kept both and dropped a third, with no department selected
C16_Witness ==
    /\ renderTimers # << >>
    /\ allBuildingData = DataMixed
    /\ currentFilters.yearRange = << 1950, 2005 >>
    /\ currentFilters.departments = << >>
    /\ filteredBuildingData = << RecAnnex, RecLab >>

ElementsOf(seq) == {seq[i] : i \in 1..Len(seq)}

ToggleLabels ==
    { "DGS", "DOT", "Unknown Department", "Office", "Garage", "Unknown Type" }

\* C17: a click on a department bar or property-type slice adds the label to
\* the selection when it is not selected and removes it when it is; no other
\* FilterState field and no comparison entry changes, and the recompute cycle
\* runs once, on the updated selection.
C17_ToggleFrame ==
    [][\A label \in ToggleLabels :
        \A kind \in { << "chart-deptDistribution", "departments" >>,
                      << "chart-propertyTypes", "propertyTypes" >> } :
          ChartClick(kind[1], label) =>
            /\ ElementsOf(currentFilters'[kind[2]]) =
                  IF label \in ElementsOf(currentFilters[kind[2]])
                  THEN ElementsOf(currentFilters[kind[2]]) \ { label }
                  ELSE ElementsOf(currentFilters[kind[2]]) \cup { label }
            /\ \A k \in DOMAIN currentFilters \ { kind[2] } : currentFilters'[k] = currentFilters[k]
            /\ selectedItems' = selectedItems
            /\ Len(renderTimers') = Len(renderTimers) + 1
            /\ renderTimers'[Len(renderTimers')].dataToUse = applyFilters(allBuildingData, currentFilters')
            /\ filteredBuildingData' = applyFilters(allBuildingData, currentFilters')]_vars

\* a department has been switched on and off again by two bar clicks while the
\* comparison list held an entry and a property type was selected
C17_Witness ==
    /\ preToggle.stage = "off"
    /\ selectedItems # << >>
    /\ currentFilters.propertyTypes # << >>

\* the record belongs to the bin of the building-age chart (green-power chart)
InClickedBin(d, canvasId, label) ==
    IF canvasId = "chart-buildingAgeDistribution"
    THEN CASE label = "Pre-1900" -> d.yearBuilt < 1900 /\ d.yearBuilt # 0 /\ d.yearBuilt # 1899
           [] label = "1900-1919" -> 1900 <= d.yearBuilt /\ d.yearBuilt < 1920
           [] label = "1920-1939" -> 1920 <= d.yearBuilt /\ d.yearBuilt < 1940
           [] label = "1940-1959" -> 1940 <= d.yearBuilt /\ d.yearBuilt < 1960
           [] label = "1960-1979" -> 1960 <= d.yearBuilt /\ d.yearBuilt < 1980
           [] label = "1980-1999" -> 1980 <= d.yearBuilt /\ d.yearBuilt < 2000
           [] label = "2000-Present" -> 2000 <= d.yearBuilt
           [] OTHER -> d.yearBuilt = 0 \/ d.yearBuilt = 1899
    ELSE /\ d.totalElectricityUseKWh > 0
         /\ CASE label = "0% Usage" -> d.percentGreenPower = 0
               [] label = "1-25%" -> 0 < d.percentGreenPower /\ d.percentGreenPower <= 25
               [] label = "26-50%" -> 25 < d.percentGreenPower /\ d.percentGreenPower <= 50
               [] label = "51-75%" -> 50 < d.percentGreenPower /\ d.percentGreenPower <= 75
               [] label = "76-100%" -> 75 < d.percentGreenPower /\ d.percentGreenPower <= 100
               [] OTHER -> d.percentGreenPower < 0 \/ d.percentGreenPower > 100

\* C18: after a click on a bin of the building-age chart or of the
\* green-power chart the active set holds records of the clicked bin only
\* (the last click wins: whatever was clicked before).
C18_BinClickRestricts ==
    [][\A canvasId \in {"chart-buildingAgeDistribution", "chart-greenPowerDistribution"} :
        \A label \in ElementsOf(yearLabels) \cup ElementsOf(greenPowerLabels) :
          ChartClick(canvasId, label) =>
            \A i \in 1..Len(filteredBuildingData') :
                InClickedBin(filteredBuildingData'[i], canvasId, label)]_vars

\* C19: after a load failure the visualization area shows the error with the
\* reload action, the canonical and active sets are empty, FilterState is the
\* declared one, no chart exists or is scheduled, and nothing the user does
\* changes the state any more (no handler is installed).
C19_LoadFailureIsFatal ==
    /\ [](phase = "failed" =>
            /\ vizArea.content = "load-error-with-reload"
            /\ allBuildingData = << >>
            /\ filteredBuildingData = << >>
            /\ currentFilters = DefaultFilters
            /\ deptChecked = {}
            /\ activeCharts = << >>
            /\ renderTimers = << >>
            /\ searchTimers = << >>)
    /\ [][phase = "failed" => UNCHANGED vars]_vars

C19_Witness == phase = "failed" /\ vizArea.content = "load-error-with-reload"

\* C20: a render callback whose renderer throws replaces the content by the
\* error message, hides the loader and shows the area, and leaves FilterState,
\* the active set and the comparison list as they were; afterwards navigation
\* is still possible and a render callback that does not throw shows its charts.
C20_RenderFailureIsolated ==
    /\ [][RenderTimerThrows =>
            /\ vizArea'.content = "render-error"
            /\ vizArea'.loader = "none"
            /\ vizArea'.display = "block"
            /\ UNCHANGED << currentFilters, filteredBuildingData, allBuildingData,
                            selectedItems, phase >>]_vars
    /\ []((vizArea.content = "render-error" /\ Len(renderTimers) < MaxPending)
            => \A view \in NavViews : ENABLED NavClick(view))
    /\ [][(vizArea.content = "render-error" /\ RenderTimerFires) =>
            /\ vizArea'.content = "charts"
            /\ vizArea'.loader = "none"
            /\ \E ch \in visibleCharts' : ch.cycle = Head(renderTimers).cycle]_vars

\* the render of a view the user navigated to has failed while the comparison
\* list held an entry
C20_Witness ==
    /\ vizArea.content = "render-error"
    /\ currentView = "geographicFootprint"
    /\ selectedItems # << >>

\* whether an entered text parses as a number (a numeric prefix is enough)
ParsesAsNumber(text) == ~ parseFloat(CharsOf(text)).nan

EnteredBounds(minValue, maxValue) ==
    << IF ParsesAsNumber(minValue) THEN parseFloat(CharsOf(minValue)).n ELSE 0,
       IF ParsesAsNumber(maxValue) THEN parseFloat(CharsOf(maxValue)).n ELSE Infinity >>

\* C21: for each range input pair (year, energy, area) a bound becomes its
\* sentinel (minimum 0, maximum unbounded) exactly when the entered text fails
\* to parse as a number, a bound that parses, 0 included, is stored as entered,
\* and the filter update runs in both cases
C21_RangeBoundsAsEntered ==
    [][\A a \in RangeTexts, b \in RangeTexts :
          /\ updateYearRange(a, b) =>
                /\ currentFilters'.yearRange = EnteredBounds(a, b)
                /\ filteredBuildingData' = applyFilters(allBuildingData, currentFilters')
          /\ updateEnergyRange(a, b) =>
                /\ currentFilters'.energyRange = EnteredBounds(a, b)
                /\ filteredBuildingData' = applyFilters(allBuildingData, currentFilters')
          /\ updateGFARange(a, b) =>
                /\ currentFilters'.gfaRange = EnteredBounds(a, b)
                /\ filteredBuildingData' = applyFilters(allBuildingData, currentFilters')]_vars

\* C22: a chart click that resolves to no related record of the active set
\* leaves no drill-down panel in the document, and a click that resolves to at
\* least one record leaves exactly one, showing that many buildings
C22_OnePanelOrNone ==
    [][\A ch \in visibleCharts : \A i \in 1..Len(ch.labels) :
          ChartClick(ch.canvasId, ch.labels[i]) =>
              LET related == getRelatedBuildings(ch.labels[i], ch.canvasId, filteredBuildingData')
              IN  IF related = << >>
                  THEN ~ drillDownPanel'.open /\ drillDownPanel'.panels = 0
                  ELSE /\ drillDownPanel'.open
                       /\ drillDownPanel'.panels = 1
                       /\ drillDownPanel'.buildings = Len(related)]_vars

\* the bar of the records without a department was clicked: the selection
\* leaves nothing in the active set, and no panel is open
C22_Witness ==
    /\ preToggle # NoToggle
    /\ currentFilters.departments = << "Unknown Department" >>
    /\ filteredBuildingData = << >>
    /\ drillDownPanel = NoPanel

\* the charts whose elements open a drill-down panel with a record list
DrillDownCharts ==
    { "chart-deptDistribution", "chart-propertyTypes", "chart-cityDistribution",
      "chart-buildingAgeDistribution", "chart-greenPowerDistribution" }

\* C23: for every drill-down chart (department, property type, city, building
\* age, green power) on screen and every element it displays, the records
\* getRelatedBuildings returns for the element's label are as many as the
\* renderer counted in that element: the panel's count equals the bar's value
C23_PanelCountsTheBar ==
    \A id \in DrillDownCharts : \A ch \in shownChart(id) : \A i \in 1..Len(ch.labels) :
        Len(getRelatedBuildings(ch.labels[i], ch.canvasId, filteredBuildingData)) = ch.data[i]

\* C24: whatever filter changes and navigations came before, once no render
\* timer is pending the charts on screen are the charts of the view requested
\* last, computed from the current active set, and the quick-stat elements
\* show the figures of the current active set
C24_SettledScreenIsCurrent ==
    (phase = "ready" /\ renderTimers = << >>) =>
        /\ activeCharts # << >>
        /\ visibleCharts = ElementsOf(renderView(currentView, filteredBuildingData,
                                                 activeCharts[Len(activeCharts)].cycle))
        /\ vizArea = [ content |-> "charts", display |-> "block", loader |-> "none" ]
        /\ quickStats = updateQuickStats(filteredBuildingData)

\* two requests were pending together (one chart of a superseded cycle is
\* still in the list), the view is not the initial one and a filter is set
C24_Witness ==
    /\ phase = "ready"
    /\ renderTimers = << >>
    /\ currentView = "geographicFootprint"
    /\ currentFilters.selectedCity # Null
    /\ \E i \in 1..Len(activeCharts) : activeCharts[i].cycle # activeCharts[Len(activeCharts)].cycle

\* the labels are in ascending order of the lower bound they name
AscendingStarts(labels) ==
    \A i \in 1..Len(labels) : \A j \in 1..Len(labels) :
        i < j => binStartOfLabel(labels[i]) < binStartOfLabel(labels[j])

\* C25: the water-use histogram and the energy-intensity histogram present
\* their bins in ascending order of lower bound, each bin labelled from its
\* start to start + binSize - 1, whatever the order of the records
C25_BinsAscending ==
    /\ \A ch \in shownChart("chart-waterUsageDistribution") :
          LET values == waterUsePositive(filteredBuildingData)
              binSize == waterBinSize(values)
          IN  values # << >> =>
                /\ AscendingStarts(ch.labels)
                /\ \A i \in 1..Len(ch.labels) :
                      LET start == binStartOfLabel(ch.labels[i])
                      IN  ch.labels[i] = toLocaleString(start) \o << "-" >>
                                         \o toLocaleString(start + binSize - 1) \o CharsOf(" kgal")
    /\ \A ch \in shownChart("chart-energyIntensityDistribution") :
          LET values == energyIntensityData(filteredBuildingData)
              binSize == energyIntensityBinSize(values)
          IN  values # << >> =>
                /\ AscendingStarts(ch.labels)
                /\ \A i \in 1..Len(ch.labels) :
                      LET start == binStartOfLabel(ch.labels[i])
                      IN  ch.labels[i] = DigitsOf(start) \o << "-" >> \o DigitsOf(start + binSize - 1)

\* C26: a story response, result or failure, changes only the caption of the
\* element it was requested for; a response that arrives after its element
\* has left the document changes no caption at all, whatever the order in
\* which the pending requests resolve
C26_StoryTouchesOwnCaption ==
    [][\A request \in stories.requests :
          (StoryResolves(request) \/ StoryFails(request)) =>
              /\ \A c \in stories.containers : c.key # request.key => c \in stories'.containers
              /\ \A c \in stories.containers : c.key = request.key =>
                    \E d \in stories'.containers :
                        /\ d.key = c.key /\ d.id = c.id
                        /\ d.content \in { << "story" >>, << "error-message" >> }
              /\ Cardinality(stories'.containers) = Cardinality(stories.containers)
              /\ stories'.requests = stories.requests \ {request}]_vars

\* a response has arrived for an element that had left the document while the
\* re-rendered view shows an element for the same chart, still waiting for its
\* own response
C26_Witness ==
    /\ stories.lastResponse # NoResponse
    /\ ~ stories.lastResponse.attached
    /\ \E c \in stories.containers :
          c.id = stories.lastResponse.id /\ c.content = << >> /\ c.loader = "flex"
    /\ stories.requests # {}

\* C27: a click on a point of the scatter plot opens the details modal of the
\* building the point represents, also when the plausibility window of the
\* plot has excluded some records of the active set
C27_PointOpensItsBuilding ==
    [][\A ch \in shownChart("chart-energyVsGfa") : \A dataIndex \in 1..Len(ch.data) :
          ScatterPointClick(dataIndex) =>
              /\ modal'.open
              /\ modal'.propertyId = ch.items[dataIndex].propertyId
              /\ modal'.propertyName = ch.data[dataIndex].name]_vars

\* C28: after 'Filter to This Category' for the label and chart of the open
\* drill-down panel, the new active set is exactly what getRelatedBuildings
\* returns for that label and chart on the active set before
C28_CategoryFilterKeepsRelated ==
    [][FilterToCategory =>
          filteredBuildingData' = getRelatedBuildings(drillDownPanel.label,
                                                      drillDownPanel.chartId,
                                                      filteredBuildingData)]_vars

\* C29: in the leaders-vs-laggards chart and in the electrical best/worst
\* chart every bar resolves in the tooltip to the building the bar displays,
\* for every number of qualifying buildings, fewer than 10 (15) included, and
\* no building is shown both as a leader and as a laggard
C29_TooltipNamesTheBar ==
    /\ \A ch \in shownChart("chart-efficiencyPerformers") :
          /\ \A i \in 1..Len(ch.items) :
                efficiencyTooltip(i, filteredBuildingData) = << ch.items[i] >>
          /\ \A i \in 1..Len(ch.items) : \A j \in 1..Len(ch.items) :
                i # j => ch.items[i] # ch.items[j]
    /\ \A ch \in shownChart("chart-electricalEfficiency") :
          /\ \A i \in 1..Len(ch.items) :
                electricalTooltip(i, filteredBuildingData) = << ch.items[i] >>
          /\ \A i \in 1..Len(ch.items) : \A j \in 1..Len(ch.items) :
                i # j => ch.items[i] # ch.items[j]

NoDuplicates(seq) == \A i \in 1..Len(seq) : \A j \in 1..Len(seq) : i # j => seq[i] # seq[j]

\* C30: whatever the interleaving of department and property-type chart
\* clicks, check-box changes, 'Filter to This Category', chip removals and
\* resets, the selected-department list and the selected-property-type list
\* contain no value twice
C30_SelectionsWithoutDuplicates ==
    /\ NoDuplicates(currentFilters.departments)
    /\ NoDuplicates(currentFilters.propertyTypes)

\* two departments are selected, one of them by a chart click or the category
\* button while its box is unchecked, next to a checked box and a selected type
C30_Witness ==
    /\ Len(currentFilters.departments) = 2
    /\ deptChecked # {}
    /\ \E i \in 1..2 : currentFilters.departments[i] \notin deptChecked
    /\ currentFilters.propertyTypes # << >>

====
